---- MODULE Spec2Model ----
(***************************************************************************)
(* A model of the HUB75 scan-out code of fluidnc-led-golang:               *)
(*   - the software (GPIO) path, cmd/hub75-gpio/main.go, and the hardware  *)
(*     (PIO) path, pkg/pio (HUB75Program, StateMachine, PIO), each driven  *)
(*     by the display loop of its main();                                  *)
(*   - StateMachine.Put with its deadline (specification SpecPut);         *)
(*   - the Close methods (specification SpecClose);                        *)
(*   - PIO.WriteLEDData (specification SpecLED).                           *)
(* Go slices are 0-based; sequences here are 1-based, so s[i] of the code  *)
(* is At(s, i).                                                            *)
(***************************************************************************)
EXTENDS Integers, Sequences, FiniteSets, TLC

VARIABLES
    \* ---- display loop and scan-out (Spec) ----
    path,            \* "gpio": HUB75Controller, "pio": HUB75Program + StateMachine
    loopPc,          \* the display goroutine: "select", "frame", "stopped"
    sigChan,         \* number of signals buffered in sigChan (capacity 1)
    patternCounter,  \* patternCounter of the display goroutine
    frameData,       \* frameData [][]byte
    rowIdx,          \* rowIdx of the RenderFrame loop
    pc,              \* position inside UpdateRow
    k,               \* index of the address bit / data channel / requested line
    col,             \* col (software path), i/6 (hardware path)
    lines,           \* keys of c.lines / p.lines
    held,            \* lines requested on the chip and not released
    level,           \* value last written to every line
    trace,           \* every line request, pin write and FIFO put of this RenderFrame
    shiftReg,        \* panel: samples of the data pins taken at rising CLK edges
    latched,         \* panel: the rows latched by rising LA edges in this frame
    rowsStarted,     \* the rowIdx of every UpdateRow call of this RenderFrame
    rowsDone,        \* the rowIdx of every UpdateRow call that returned nil
    renderErr,       \* what the last RenderFrame returned
    \* ---- StateMachine.Put (SpecPut) ----
    putPc,           \* "idle", "poll", "check", "sleep", "write", "returned"
    putSm,           \* sm.sm, the slot
    putData,         \* the word handed to Put
    now,             \* time.Now(), in polling periods
    deadline,        \* deadline of the running Put
    fifoStuck,       \* the environment never clears the full flag
    mem,             \* registers of the mapped window, by offset; mapped = TRUE
    mapped,          \* p.mem != nil
    smLocked,        \* sm.mu is held
    txfWrites,       \* words written to the TXF register
    putResult,       \* what Put returned
    \* ---- Close (SpecClose) ----
    closer,          \* which Close runs: "RGBMatrix", "PIO", "HUB75Controller"
    owned,           \* what the closed object holds when Close is called
    closePc,         \* position inside it
    failing,         \* the releases the environment makes fail
    attempted,       \* releases attempted so far, in order
    closeResult,     \* what Close returned
    \* ---- PIO.WriteLEDData (SpecLED) ----
    ledPc,           \* "call", "done"
    ledRow,          \* row argument
    ledData,         \* rowData argument
    ledWrites,       \* every writeReg call made: <<addr, val, accepted>>
    ledResult,       \* what WriteLEDData returned
    \* ---- acquiring and releasing pins and mappings (SpecAcquire) ----
    acqOp,           \* the constructor or Close that runs, "none" before the first
    acqPc,           \* position inside it: "idle", a step, "returned"
    acqK,            \* index of the pin its loop is at
    acqPins,         \* the pins it was called with
    acqCount,        \* calls made so far
    objects,         \* the objects alive: "ctrl", "prog", "sm", "pio"
    exported,        \* pins exported in /sys/class/gpio
    pinHandles,      \* the gpio.Pin values NewPin returned, with their unexport writes
    mappings,        \* live mappings of the PIO register region
    acquired,        \* pins the running call exported or requested (Close: owned)
    released,        \* pins the running call has released, in order
    lineCloses,      \* line.Close() calls on the handle stored for each pin
    acqResult,       \* what the call returned: "running", "nil", "error"
    \* ---- access to a register window (SpecReg) ----
    regObj,          \* the object that maps the window: "PIO", "MemoryMap"
    regPc,           \* the accessing goroutine: "idle", "deref", "returned"
    regAddr,         \* the address it was called with
    memNil,          \* p.mem == nil
    winLive,         \* the region is mapped (not yet unmapped by Munmap)
    accessLog,       \* the 32-bit accesses made: offset, and whether mapped then
    regResult,       \* what the access returned
    \* ---- the state-machine slots (SpecSlot) ----
    slotOp,          \* the last call: "NewStateMachine", "LoadProgram", "Start", "Stop"
    slotNo,          \* sm.sm of that call
    slotCount,       \* calls made so far
    slotWas,         \* lifecycle state of that slot when the call was made
    slotState,       \* lifecycle state of every slot
    slotHeld,        \* lines requested through the state machines' chips
    regs,            \* the PIO window, by offset, in 16-bit halves
    regWrites,       \* the writeReg calls of the last call, in order
    slotResult,      \* what the last call returned
    \* ---- one gpio.Pin shared by goroutines (SpecPin) ----
    pinPc,           \* position of every goroutine inside its call on the pin
    pinOp,           \* the call it makes: "SetValue", "GetValue", "Pulse", "none"
    pinArg,          \* the value argument of its SetValue
    pinMu,           \* p.mu: 0 when free, else the goroutine that holds it
    pinValue,        \* the value of the pin in sysfs
    pinLog,          \* every writePinValue / readPinValue call made, in order
    pinCalls,        \* calls started so far
    pinResult,       \* what the goroutine's call returned
    \* ---- rpi5matrix.Matrix shared by goroutines (SpecMat) ----
    matCfg,          \* the *Config handed to NewMatrix
    matMade,         \* NewMatrix has returned a matrix
    newResult,       \* what NewMatrix returned: "none", "nil", or the error
    matrix,          \* the Matrix: width, height, brightness
    strip,           \* the RGBMatrix behind it: width, height, pin, brightness
    buffer,          \* m.buffer of the RGBMatrix; <<>> is a nil color.Color
    matHeld,         \* what NewRGBMatrix holds: exported pins, mappings
    matPc,           \* position of every goroutine inside its call on the matrix
    matCall,         \* the call it makes: op, x, y, c, brightness
    matMu,           \* m.mu of the Matrix: 0 when free, else the goroutine holding it
    matResult,       \* what the goroutine's call returned
    matRead,         \* the colour or brightness the call returned
    painted,         \* the colour of the last SetPixel that returned nil, by coordinate
    matCalls,        \* calls started so far
    \* ---- StateMachine.Close ----
    smMu,            \* sm.mu of the state machine of each slot: 1 while a Close holds it
    smClosePc,       \* where the Close of each slot's state machine stands
    \* ---- PIO.IsFIFOFull, IsFIFOEmpty, WaitForFIFO ----
    fifoPc,          \* where the caller of the FIFO-status methods stands
    fifoOp,          \* the method called: IsFIFOFull, IsFIFOEmpty or WaitForFIFO
    fifoStatus,      \* the word the hardware holds in FSTAT of slot 0: bit 0 full, bit 1 empty
    fifoNow,         \* time.Now(), in sleep periods
    fifoDeadline,    \* deadline of WaitForFIFO
    fifoFlag,        \* the bool the last call returned
    fifoErr,         \* the error the last call returned
    fifoCalls,       \* calls made so far
    \* ---- shutdown of main ----
    mainPc,          \* where main stands: waiting on stop, in its clean-up, returned or parked
    mainMu,          \* sm.mu of the state machine main created: 1 while a call holds it
    \* ---- Scanner.scanNetworkRange ----
    netPc,           \* scanNetworkRange: "idle", "start", "collect" or "returned"
    netI,            \* the start loop's i: the next host address to try
    netGot,          \* the collect loop's i: the selects completed so far
    netSkip,         \* the host addresses equal to the network or broadcast address
    hostPc,          \* per host address, where its scanIP goroutine is
    hostValid,       \* per host address, the Valid field of the result it will send
    resultChan,      \* the ScanResults buffered in resultChan
    netResults,      \* results: the valid results appended so far
    netErr,          \* the error scanNetworkRange returned
    ctxDone,         \* ctx.Done() is closed
    netTimedOut      \* the channel of time.After has its value

scanVars == <<path, loopPc, sigChan, patternCounter, frameData, rowIdx, pc, k, col,
              lines, held, level, trace, shiftReg, latched, rowsStarted, rowsDone,
              renderErr>>
putVars == <<putPc, putSm, putData, now, deadline, fifoStuck, mem, mapped, smLocked,
             txfWrites, putResult>>
closeVars == <<closer, owned, closePc, failing, attempted, closeResult>>
ledVars == <<ledPc, ledRow, ledData, ledWrites, ledResult>>
acqVars == <<acqOp, acqPc, acqK, acqPins, acqCount, objects, exported, pinHandles,
             mappings, acquired, released, lineCloses, acqResult>>
regVars == <<regObj, regPc, regAddr, memNil, winLive, accessLog, regResult>>
slotVars == <<slotOp, slotNo, slotCount, slotWas, slotState, slotHeld, regs, regWrites,
              slotResult>>
pinVars == <<pinPc, pinOp, pinArg, pinMu, pinValue, pinLog, pinCalls, pinResult>>
matVars == <<matCfg, matMade, newResult, matrix, strip, buffer, matHeld, matPc, matCall, matMu, matResult, matRead, painted, matCalls>>
smCloseVars == <<smMu, smClosePc>>
fifoVars == <<fifoPc, fifoOp, fifoStatus, fifoNow, fifoDeadline, fifoFlag, fifoErr, fifoCalls>>
shutVars == <<mainPc, mainMu>>
netVars == <<netPc, netI, netGot, netSkip, hostPc, hostValid, resultChan, netResults, netErr, ctxDone, netTimedOut>>
extraVars == <<acqVars, regVars, slotVars, pinVars, matVars, smCloseVars, fifoVars, shutVars, netVars>>
vars == <<scanVars, putVars, closeVars, ledVars, extraVars>>

----------------------------------------------------------------------------
\* Bounds of the model.

\* DISPLAY_WIDTH, scaled down (64 in the code).
Width == 5
\* ROWS, scaled down (16 in the code).
NumRows == 2
\* Frames the display loop renders before the ticker is no longer followed.
MaxFrames == 4

----------------------------------------------------------------------------
\* Helpers for Go's slices and integer operators.

At(s, i) == s[i + 1]

Pow2(n) == 2 ^ n

\* (v >> n) & 1, for v >= 0
Bit(v, n) == (v \div Pow2(n)) % 2

Last(s) == s[Len(s)]

----------------------------------------------------------------------------
\* Pins (HUB75Config / HUB75Program fields).

R1Pin == "R1"
G1Pin == "G1"
B1Pin == "B1"
R2Pin == "R2"
G2Pin == "G2"
B2Pin == "B2"
CLKPin == "CLK"
OEPin == "OE"
LAPin == "LA"
ABPin == "A"
BCPin == "B"
CCPin == "C"
DPin == "D"
EPin == "E"

GetPins == <<R1Pin, G1Pin, B1Pin, R2Pin, G2Pin, B2Pin, CLKPin, OEPin, LAPin,
             ABPin, BCPin, CCPin, DPin, EPin>>

Range(s) == {s[i] : i \in 1..Len(s)}

AllPins == Range(GetPins)

\* The data pins in the order UpdateRow writes them.
DataPins == <<R1Pin, G1Pin, B1Pin, R2Pin, G2Pin, B2Pin>>

\* The address pins in the order UpdateRow writes them.
AddrPins == <<ABPin, BCPin, CCPin, DPin, EPin>>

\* The lines HUB75Program.UpdateRow makes sure it holds.
RowPins == <<ABPin, BCPin, CCPin, DPin, EPin, OEPin, LAPin>>

----------------------------------------------------------------------------
\* Frame producers (updateFrameData and the two fill functions of each main).

\* Side of a checkerboard cell.
cellSize == 4

\* One pixel of fillColor: R1,G1,B1,R2,G2,B2 <- r,g,b,r,g,b
FillPixel(r, g, b) == <<r, g, b, r, g, b>>

\* A frame whose pixel (row, col), both 0-based, holds the six bytes px[row, col].
FrameOf(px) ==
    [row \in 1..NumRows |->
        [i \in 1..(Width * 6) |-> px[row - 1, (i - 1) \div 6][((i - 1) % 6) + 1]]]

fillColor(r, g, b) ==
    FrameOf([row \in 0..(NumRows - 1), c \in 0..(Width - 1) |-> FillPixel(r, g, b)])

\* cmd/hub75-gpio: yellow 4x4 cells, animated by offset / 8
CtrlCheckerPixel(row, c, offset) ==
    IF ((row \div cellSize) + (c \div cellSize) + (offset \div 8)) % 2 = 0
    THEN <<1, 1, 0, 1, 1, 0>>
    ELSE <<0, 0, 0, 0, 0, 0>>

\* cmd/pio: period-2 checkerboard, yellow above and magenta below
ProgCheckerPixel(row, c, offset) ==
    IF (row + c + offset) % 2 = 0
    THEN <<255, 255, 0, 255, 0, 255>>
    ELSE <<0, 0, 0, 0, 0, 0>>

CtrlUpdateFrameData(counter) ==
    CASE counter % 4 = 0 -> fillColor(1, 0, 0)
      [] counter % 4 = 1 -> fillColor(0, 1, 0)
      [] counter % 4 = 2 -> fillColor(0, 0, 1)
      [] OTHER -> FrameOf([row \in 0..(NumRows - 1), c \in 0..(Width - 1) |->
                              CtrlCheckerPixel(row, c, counter)])

ProgUpdateFrameData(counter) ==
    CASE counter % 4 = 0 -> fillColor(255, 0, 0)
      [] counter % 4 = 1 -> fillColor(0, 255, 0)
      [] counter % 4 = 2 -> fillColor(0, 0, 255)
      [] OTHER -> FrameOf([row \in 0..(NumRows - 1), c \in 0..(Width - 1) |->
                              ProgCheckerPixel(row, c, counter)])

updateFrameData(counter) ==
    IF path = "gpio" THEN CtrlUpdateFrameData(counter) ELSE ProgUpdateFrameData(counter)

----------------------------------------------------------------------------
\* Errors. An error value keeps what its message names: the failing call,
\* the pin, and the row (NoRow when the message names no row).

NoRow == 0 - 1

NoErr == [kind |-> "nil", pin |-> "", row |-> NoRow]

Err(kind, pin) == [kind |-> kind, pin |-> pin, row |-> NoRow]

\* HUB75Controller.RenderFrame: return err
CtrlRenderErr(err, r) == err

\* HUB75Program.RenderFrame: fmt.Errorf("failed to update row %d: %v", rowIdx, err)
ProgRenderErr(err, r) == [err EXCEPT !.row = r]

RenderErr(err, r) ==
    IF path = "gpio" THEN CtrlRenderErr(err, r) ELSE ProgRenderErr(err, r)

----------------------------------------------------------------------------
\* The lines and the panel behind them.

\* addrVal := rowIdx & 0x1F
AddrVal(r) == r % 32

\* The value UpdateRow writes to OE to disable the output (OE is active low).
OutputDisabled == 1

\* The value UpdateRow writes to OE to enable the output.
OutputEnabled == 0

\* gpiocdev's Line.SetValue drives the line active for any value other than 0.
LineLevel(value) == IF value = 0 THEN 0 ELSE 1

\* One entry of the write trace: what was issued, for which row, whether it
\* succeeded, and the level OE held when it was issued.
Event(kind, pin, value, ok) ==
    [kind |-> kind, row |-> rowIdx, pin |-> pin, val |-> value, ok |-> ok,
     oe |-> level[OEPin]]

\* What the panel samples at a rising clock edge.
Sample == [i \in 1..6 |-> level[DataPins[i]]]

Rising(pin, value, ok) == ok /\ level[pin] = 0 /\ LineLevel(value) = 1

\* line.SetValue(value) on a requested line, failing when ~ok
WritePin(pin, value, ok) ==
    /\ trace' = Append(trace, Event("pin", pin, value, ok))
    /\ level' = IF ok THEN [level EXCEPT ![pin] = LineLevel(value)] ELSE level
    /\ shiftReg' = IF Rising(pin, value, ok) /\ pin = CLKPin THEN Append(shiftReg, Sample)
                   ELSE IF Rising(pin, value, ok) /\ pin = LAPin THEN <<>>
                   ELSE shiftReg
    /\ latched' = IF Rising(pin, value, ok) /\ pin = LAPin THEN Append(latched, shiftReg)
                  ELSE latched

NoWrite == UNCHANGED <<level, trace, shiftReg, latched>>

\* Mutant of CtrlSetPinOk: the error of line.SetValue is dropped.
CtrlSetPinOkDropsError(pin, ok) == TRUE

\* HUB75Controller.setPin: a pin that is not in c.lines is silently ignored
CtrlSetPinOk(pin, ok) == pin \notin lines \/ ok

\* HUB75Program.setPin: a pin that is not in p.lines is an error
ProgSetPinOk(pin, ok) == pin \in lines /\ ok

SetPinOk(pin, ok) ==
    IF path = "gpio" THEN CtrlSetPinOk(pin, ok) ELSE ProgSetPinOk(pin, ok)

\* setPin's effect on the line
SetPin(pin, value, ok) ==
    IF pin \in lines THEN WritePin(pin, value, ok) ELSE NoWrite

----------------------------------------------------------------------------
\* Control flow of RenderFrame and UpdateRow.

OtherThanScan == UNCHANGED <<putVars, closeVars, ledVars, extraVars>>

\* Mutant of RowFrame: the row update zeroes the row it has read.
RowFrameClearsRow ==
    /\ UNCHANGED <<path, sigChan, patternCounter>>
    /\ frameData' = [frameData EXCEPT ![rowIdx + 1] = [i \in DOMAIN @ |-> 0]]

\* What no step of a row update changes: UpdateRow only reads rowData.
RowFrame == UNCHANGED <<path, sigChan, patternCounter, frameData>>

\* The first step of UpdateRow.
FirstPc == IF path = "gpio" THEN "addr" ELSE "req"

\* for col := 0; col < DISPLAY_WIDTH; col++ { if idx+5 >= len(rowData) { break } ...
CtrlMorePixels(c, rowData) == c < Width /\ ~(c * 6 + 5 >= Len(rowData))

\* for i := 0; i < len(rowData); i += 6 { if i+5 < len(rowData) { ... Put ... } }
\* (c is i / 6; a trailing group of fewer than six bytes puts nothing)
ProgMorePixels(c, rowData) == c * 6 < Len(rowData) /\ c * 6 + 5 < Len(rowData)

MorePixels(c, rowData) ==
    IF path = "gpio" THEN CtrlMorePixels(c, rowData) ELSE ProgMorePixels(c, rowData)

\* The step at which pixel c of the row starts, or the latch when the row is shifted.
PixelOrLatch(c) ==
    IF MorePixels(c, At(frameData, rowIdx))
    THEN IF path = "gpio" THEN "data" ELSE "put"
    ELSE "laHi"

Goto(p, kk, c) ==
    /\ pc' = p
    /\ k' = kk
    /\ col' = c
    /\ UNCHANGED <<loopPc, rowIdx, rowsStarted, rowsDone, renderErr>>

\* UpdateRow returns err, and RenderFrame returns at once.
ReturnErr(err) ==
    /\ renderErr' = RenderErr(err, rowIdx)
    /\ loopPc' = "select"
    /\ pc' = "idle"
    /\ k' = 0
    /\ col' = 0
    /\ UNCHANGED <<rowIdx, rowsStarted, rowsDone>>

\* Mutant of NextRow: the loop steps over every other row.
NextRowSkips(r) == r + 2

\* for rowIdx, rowData := range frameData
NextRow(r) == r + 1

\* UpdateRow returns nil: RenderFrame goes on to the next row, or returns nil.
RowReturnsNil ==
    /\ rowsDone' = Append(rowsDone, rowIdx)
    /\ k' = 0
    /\ col' = 0
    /\ IF NextRow(rowIdx) < Len(frameData)
       THEN /\ rowIdx' = NextRow(rowIdx)
            /\ rowsStarted' = Append(rowsStarted, NextRow(rowIdx))
            /\ pc' = FirstPc
            /\ UNCHANGED <<loopPc, renderErr>>
       ELSE /\ loopPc' = "select"
            /\ pc' = "idle"
            /\ renderErr' = NoErr
            /\ UNCHANGED <<rowIdx, rowsStarted>>

InRow(p) == loopPc = "frame" /\ pc = p

----------------------------------------------------------------------------
\* The display goroutine of main().

\* A SIGINT or SIGTERM is delivered: signal.Notify queues it in sigChan
\* (capacity 1); a signal that finds the channel full is dropped.
Signal ==
    /\ sigChan = 0
    /\ sigChan' = 1
    /\ UNCHANGED <<path, loopPc, patternCounter, frameData, rowIdx, pc, k, col, lines,
                   held, level, trace, shiftReg, latched, rowsStarted, rowsDone,
                   renderErr>>
    /\ OtherThanScan

\* Mutant of AtSelect: the signal is also received between two steps of a frame.
AtSelectOrInFrame == loopPc \in {"select", "frame"}

\* Where the goroutine can receive from sigChan: at its select, between frames.
AtSelect == loopPc = "select"

\* case <-sigChan: stop <- struct{}{}; return
ObserveSignal ==
    /\ AtSelect
    /\ loopPc # "stopped"
    /\ sigChan = 1
    /\ sigChan' = 0
    /\ loopPc' = "stopped"
    /\ pc' = "idle"
    /\ UNCHANGED <<path, patternCounter, frameData, rowIdx, k, col, lines, held, level,
                   trace, shiftReg, latched, rowsStarted, rowsDone, renderErr>>
    /\ OtherThanScan

\* case <-ticker.C: updateFrameData(frameData, patternCounter); patternCounter++;
\* RenderFrame is entered and calls UpdateRow for row 0.
Tick ==
    /\ loopPc = "select"
    /\ patternCounter < MaxFrames
    /\ frameData' = updateFrameData(patternCounter)
    /\ patternCounter' = patternCounter + 1
    /\ loopPc' = "frame"
    /\ rowIdx' = 0
    /\ rowsStarted' = <<0>>
    /\ rowsDone' = <<>>
    /\ renderErr' = NoErr
    /\ pc' = FirstPc
    /\ k' = 0
    /\ col' = 0
    /\ trace' = <<>>
    /\ shiftReg' = <<>>
    /\ latched' = <<>>
    /\ UNCHANGED <<path, sigChan, lines, held, level>>
    /\ OtherThanScan

----------------------------------------------------------------------------
\* The steps of UpdateRow, in the order of the code. Every line request, pin
\* write and FIFO put can fail (ok = FALSE); UpdateRow then returns the error.

\* What a step that requests no line leaves alone.
NoRequest == UNCHANGED <<lines, held>>

\* getOrRequestLine(sm, pin) for the k-th pin of RowPins: a pin already in
\* p.lines is kept; sm.chip.RequestLine(pin, AsOutput(0)) fails when the line
\* is held already (EBUSY) or for any other reason (~ok).
ProgRequestLine ==
    /\ path = "pio"
    /\ InRow("req")
    /\ LET pin == At(RowPins, k)
           next == IF k + 1 < Len(RowPins) THEN Goto("req", k + 1, 0)
                   ELSE Goto("addr", 0, 0)
       IN  IF pin \in lines
           THEN /\ next
                /\ NoWrite
                /\ NoRequest
           ELSE \E ok \in BOOLEAN :
                  LET granted == ok /\ pin \notin held IN
                    /\ trace' = Append(trace, Event("req", pin, 0, granted))
                    /\ UNCHANGED <<shiftReg, latched>>
                    /\ IF granted
                       THEN /\ lines' = lines \cup {pin}
                            /\ held' = held \cup {pin}
                            /\ level' = [level EXCEPT ![pin] = 0]
                            /\ next
                       ELSE /\ NoRequest
                            /\ UNCHANGED level
                            /\ ReturnErr(Err("request", pin))
    /\ RowFrame
    /\ OtherThanScan

\* setPin(ABPin, (addrVal>>0)&1) ... setPin(EPin, (addrVal>>4)&1)
SetAddressStep ==
    /\ InRow("addr")
    /\ LET pin == At(AddrPins, k) IN
         \E ok \in BOOLEAN :
           /\ SetPin(pin, Bit(AddrVal(rowIdx), k), ok)
           /\ IF SetPinOk(pin, ok)
              THEN IF k + 1 < Len(AddrPins) THEN Goto("addr", k + 1, 0)
                   ELSE Goto("oeOff", 0, 0)
              ELSE ReturnErr(Err("setPin", pin))
    /\ NoRequest
    /\ RowFrame
    /\ OtherThanScan

CtrlSetAddress == path = "gpio" /\ SetAddressStep

ProgSetAddress == path = "pio" /\ SetAddressStep

\* setPin(OEPin, value) before the pixel loop
SetOutputBeforePixels(value) ==
    /\ InRow("oeOff")
    /\ \E ok \in BOOLEAN :
         /\ SetPin(OEPin, value, ok)
         /\ IF SetPinOk(OEPin, ok)
            THEN Goto(PixelOrLatch(0), 0, 0)
            ELSE ReturnErr(Err("setPin", OEPin))
    /\ NoRequest
    /\ RowFrame
    /\ OtherThanScan

\* Mutant of DisableOutputStep: OE is written with the level that enables.
DisableOutputStepWrongLevel == SetOutputBeforePixels(OutputEnabled)

\* Disable output during data change: setPin(OEPin, 1)
DisableOutputStep == SetOutputBeforePixels(OutputDisabled)

CtrlDisableOutput == path = "gpio" /\ DisableOutputStep

ProgDisableOutput == path = "pio" /\ DisableOutputStep

\* The byte UpdateRow writes to data pin number ch of pixel c: rowData[idx+ch]
DataByte(rowData, c, ch) == At(rowData, c * 6 + ch)

\* setPin(R1Pin, int(rowData[idx+0])) ... setPin(B2Pin, int(rowData[idx+5]))
CtrlSetData ==
    /\ path = "gpio"
    /\ InRow("data")
    /\ LET pin == At(DataPins, k) IN
         \E ok \in BOOLEAN :
           /\ SetPin(pin, DataByte(At(frameData, rowIdx), col, k), ok)
           /\ IF SetPinOk(pin, ok)
              THEN IF k + 1 < Len(DataPins) THEN Goto("data", k + 1, col)
                   ELSE Goto("clkHi", 0, col)
              ELSE ReturnErr(Err("setPin", pin))
    /\ NoRequest
    /\ RowFrame
    /\ OtherThanScan

\* Pulse the clock: setPin(CLKPin, 1)
CtrlClockHigh ==
    /\ path = "gpio"
    /\ InRow("clkHi")
    /\ \E ok \in BOOLEAN :
         /\ SetPin(CLKPin, 1, ok)
         /\ IF SetPinOk(CLKPin, ok)
            THEN Goto("clkLo", 0, col)
            ELSE ReturnErr(Err("setPin", CLKPin))
    /\ NoRequest
    /\ RowFrame
    /\ OtherThanScan

\* setPin(CLKPin, 0), then col++ and the loop test
CtrlClockLow ==
    /\ path = "gpio"
    /\ InRow("clkLo")
    /\ \E ok \in BOOLEAN :
         /\ SetPin(CLKPin, 0, ok)
         /\ IF SetPinOk(CLKPin, ok)
            THEN Goto(PixelOrLatch(col + 1), 0, col + 1)
            ELSE ReturnErr(Err("setPin", CLKPin))
    /\ NoRequest
    /\ RowFrame
    /\ OtherThanScan

\* Mutant of PackPixel: a channel is on only above 1.
PackPixelAboveOne(rowData, c) ==
    LET bit(ch) == IF At(rowData, c * 6 + ch) > 1 THEN Pow2(ch) ELSE 0
    IN  bit(0) + bit(1) + bit(2) + bit(3) + bit(4) + bit(5)

\* Mutant of PackPixel: the lower half's channels take bits 0..2.
PackPixelLowerFirst(rowData, c) ==
    LET bit(ch) == IF At(rowData, c * 6 + ch) > 0 THEN Pow2((ch + 3) % 6) ELSE 0
    IN  bit(0) + bit(1) + bit(2) + bit(3) + bit(4) + bit(5)

\* data |= 1 << ch for every channel ch of pixel c with rowData[i+ch] > 0
PackPixel(rowData, c) ==
    LET bit(ch) == IF At(rowData, c * 6 + ch) > 0 THEN Pow2(ch) ELSE 0
    IN  bit(0) + bit(1) + bit(2) + bit(3) + bit(4) + bit(5)

\* What sm.Put can return: nil, or one of its three errors.
PutOutcomes == {"nil", "fifo status", "timeout", "fifo write"}

\* sm.Put(data) for pixel col, then i += 6 and the loop test
ProgPutPixel ==
    /\ path = "pio"
    /\ InRow("put")
    /\ \E res \in PutOutcomes :
         /\ trace' = Append(trace, Event("put", "FIFO",
                                         PackPixel(At(frameData, rowIdx), col),
                                         res = "nil"))
         /\ IF res = "nil"
            THEN Goto(PixelOrLatch(col + 1), 0, col + 1)
            ELSE ReturnErr(Err(res, "FIFO"))
    /\ UNCHANGED <<level, shiftReg, latched>>
    /\ NoRequest
    /\ RowFrame
    /\ OtherThanScan

\* Latch the data: setPin(LAPin, 1)
LatchHighStep ==
    /\ InRow("laHi")
    /\ \E ok \in BOOLEAN :
         /\ SetPin(LAPin, 1, ok)
         /\ IF SetPinOk(LAPin, ok)
            THEN Goto("laLo", 0, 0)
            ELSE ReturnErr(Err("setPin", LAPin))
    /\ NoRequest
    /\ RowFrame
    /\ OtherThanScan

CtrlLatchHigh == path = "gpio" /\ LatchHighStep

ProgLatchHigh == path = "pio" /\ LatchHighStep

\* setPin(LAPin, 0)
LatchLowStep ==
    /\ InRow("laLo")
    /\ \E ok \in BOOLEAN :
         /\ SetPin(LAPin, 0, ok)
         /\ IF SetPinOk(LAPin, ok)
            THEN Goto("oeOn", 0, 0)
            ELSE ReturnErr(Err("setPin", LAPin))
    /\ NoRequest
    /\ RowFrame
    /\ OtherThanScan

CtrlLatchLow == path = "gpio" /\ LatchLowStep

ProgLatchLow == path = "pio" /\ LatchLowStep

\* Enable output: setPin(OEPin, 0); return nil
EnableOutputStep ==
    /\ InRow("oeOn")
    /\ \E ok \in BOOLEAN :
         /\ SetPin(OEPin, OutputEnabled, ok)
         /\ IF SetPinOk(OEPin, ok)
            THEN RowReturnsNil
            ELSE ReturnErr(Err("setPin", OEPin))
    /\ NoRequest
    /\ RowFrame
    /\ OtherThanScan

CtrlEnableOutput == path = "gpio" /\ EnableOutputStep

ProgEnableOutput == path = "pio" /\ EnableOutputStep

----------------------------------------------------------------------------
\* The state after construction, for the display loop and the scan-out.

\* The pins a caller can hand to NewStateMachine (Config.Pins), all of which
\* StateMachine.init requests and keeps: the OUT and side-set pins of the
\* program, or GetPins() as cmd/pio does.
SmPinSets == {{R1Pin, G1Pin, B1Pin, R2Pin, G2Pin, B2Pin, CLKPin}, AllPins}

ZeroFrame == [row \in 1..NumRows |-> [i \in 1..(Width * 6) |-> 0]]

ScanInit ==
    /\ path \in {"gpio", "pio"}
    /\ loopPc = "select"
    /\ sigChan = 0
    /\ patternCounter = 0
    /\ frameData = ZeroFrame
    /\ rowIdx = 0
    /\ pc = "idle"
    /\ k = 0
    /\ col = 0
    /\ IF path = "gpio"
       THEN lines = AllPins /\ held = AllPins
       ELSE lines = {} /\ held \in SmPinSets
    /\ level = [p \in AllPins |-> 0]
    /\ trace = <<>>
    /\ shiftReg = <<>>
    /\ latched = <<>>
    /\ rowsStarted = <<>>
    /\ rowsDone = <<>>
    /\ renderErr = NoErr

\* The row indexes UpdateRow is called with: the first, the last one the
\* address lines can select, and the first two beyond it.
RowIndexes == {0, Pow2(Len(AddrPins)) - 1, Pow2(Len(AddrPins)), Pow2(Len(AddrPins)) + 1}

\* The channel bytes UpdateRow is called with: off, the two dimmest values
\* and full brightness.
ChannelValues == {0, 1, 2, 255}

\* rowData whose R1, B1 and G2 bytes are v and whose other bytes are 0.
RowOf(v) == [i \in 1..(Width * 6) |-> IF i % 2 = 1 THEN v ELSE 0]

\* UpdateRow(rowIdx, rowData) is called, as the last row of a frame of
\* rowIdx + 1 rows.
RowInit ==
    /\ path \in {"gpio", "pio"}
    /\ loopPc = "frame"
    /\ sigChan = 0
    /\ patternCounter = 0
    /\ rowIdx \in RowIndexes
    /\ \E v \in ChannelValues :
         frameData = [row \in 1..(rowIdx + 1) |-> RowOf(v)]
    /\ pc = FirstPc
    /\ k = 0
    /\ col = 0
    /\ IF path = "gpio"
       THEN lines = AllPins /\ held = AllPins
       ELSE lines = {} /\ held \in SmPinSets
    /\ level = [p \in AllPins |-> 0]
    /\ trace = <<>>
    /\ shiftReg = <<>>
    /\ latched = <<>>
    /\ rowsStarted = <<rowIdx>>
    /\ rowsDone = <<>>
    /\ renderErr = NoErr

\* The steps of one UpdateRow call.
RowNext ==
    \/ ProgRequestLine
    \/ CtrlSetAddress
    \/ ProgSetAddress
    \/ CtrlDisableOutput
    \/ ProgDisableOutput
    \/ CtrlSetData
    \/ CtrlClockHigh
    \/ CtrlClockLow
    \/ ProgPutPixel
    \/ CtrlLatchHigh
    \/ ProgLatchHigh
    \/ CtrlLatchLow
    \/ ProgLatchLow
    \/ CtrlEnableOutput
    \/ ProgEnableOutput

ScanNext ==
    \/ Signal
    \/ ObserveSignal
    \/ Tick
    \/ ProgRequestLine
    \/ CtrlSetAddress
    \/ ProgSetAddress
    \/ CtrlDisableOutput
    \/ ProgDisableOutput
    \/ CtrlSetData
    \/ CtrlClockHigh
    \/ CtrlClockLow
    \/ ProgPutPixel
    \/ CtrlLatchHigh
    \/ ProgLatchHigh
    \/ CtrlLatchLow
    \/ ProgLatchLow
    \/ CtrlEnableOutput
    \/ ProgEnableOutput

----------------------------------------------------------------------------
\* The register window of the PIO block (pkg/pio).

\* PIOBaseAddr = 0x50200000
PIOBaseAddr == 1344274432

\* PIOMemSize = 0x1000
PIOMemSize == 4096

\* SM0_FSTAT = 0x0e0
SM0_FSTAT == 224

\* SM0_TXF = 0x0e8
SM0_TXF == 232

\* smOffset := uint32(sm.sm * 0x40)
SmStride == 64

\* State-machine slots.
Slots == 0..3

\* offset := addr - PIOBaseAddr; if offset >= uint32(len(p.mem)) { error }
\* The subtraction is in uint32: for addr < PIOBaseAddr it wraps to at least
\* 2^32 - PIOBaseAddr, which is beyond any window, so the access is refused.
InWindow(addr) == addr >= PIOBaseAddr /\ addr - PIOBaseAddr < PIOMemSize

\* readReg / writeReg accept addr: the window is mapped and holds the offset
RegAccepted(addr) == mapped /\ InWindow(addr)

\* The registers the model keeps, by offset in the window.
FstatOff(s) == s * SmStride + SM0_FSTAT

TxfOff(s) == s * SmStride + SM0_TXF

RegOffsets == {FstatOff(s) : s \in Slots} \cup {TxfOff(s) : s \in Slots}

----------------------------------------------------------------------------
\* StateMachine.Put. Time is counted in polling periods (the 100 microseconds
\* Put sleeps between two reads of the FIFO status).

\* deadline := time.Now().Add(time.Millisecond * 100), scaled down from 1000 periods.
PutTimeout == 3
\* The latest time of the model.
MaxTime == 6
\* The longest a sleep of one period can last.
MaxSleep == 2

\* The words a caller puts.
PutWords == {0, 63}

OtherThanPut == UNCHANGED <<scanVars, closeVars, ledVars, extraVars>>

\* Put returns res; the deferred sm.mu.Unlock() runs.
PutReturn(res) ==
    /\ putResult' = res
    /\ putPc' = "returned"
    /\ smLocked' = FALSE

\* sm.mu.Lock(); defer sm.mu.Unlock(); deadline := time.Now().Add(100ms)
\* (sm.pio is not nil: the state machine has not been closed)
PutCall ==
    /\ putPc \in {"idle", "returned"}
    /\ ~smLocked
    /\ now + PutTimeout < MaxTime
    /\ \E data \in PutWords : putData' = data
    /\ smLocked' = TRUE
    /\ deadline' = now + PutTimeout
    /\ putPc' = "poll"
    /\ putResult' = "running"
    /\ txfWrites' = <<>>
    /\ UNCHANGED <<putSm, now, fifoStuck, mem, mapped>>
    /\ OtherThanPut

\* fstat, err := sm.pio.readReg(PIOBaseAddr + smOffset + SM0_FSTAT);
\* if (fstat & 0x1) == 0 { break }
PutPoll ==
    /\ putPc = "poll"
    /\ IF ~RegAccepted(PIOBaseAddr + FstatOff(putSm))
       THEN PutReturn("failed to read FIFO status")
       ELSE /\ putPc' = IF mem[FstatOff(putSm)] % 2 = 0 THEN "write" ELSE "check"
            /\ UNCHANGED <<putResult, smLocked>>
    /\ UNCHANGED <<putSm, putData, now, deadline, fifoStuck, mem, mapped, txfWrites>>
    /\ OtherThanPut

\* Mutant of PutTimedOut: the deadline counts as passed when it is reached.
PutTimedOutEarly(t, d) == t >= d

\* time.Now().After(deadline)
PutTimedOut(t, d) == t > d

\* if time.Now().After(deadline) { return timeout error }
PutCheck ==
    /\ putPc = "check"
    /\ IF PutTimedOut(now, deadline)
       THEN PutReturn("timeout waiting for FIFO space")
       ELSE /\ putPc' = "sleep"
            /\ UNCHANGED <<putResult, smLocked>>
    /\ UNCHANGED <<putSm, putData, now, deadline, fifoStuck, mem, mapped, txfWrites>>
    /\ OtherThanPut

\* time.Sleep(time.Microsecond * 100): at least one period passes (the
\* clock of the model stops at MaxTime, which is past every deadline)
PutSleep ==
    /\ putPc = "sleep"
    /\ \E d \in 1..MaxSleep :
         now' = IF now + d <= MaxTime THEN now + d ELSE MaxTime
    /\ putPc' = "poll"
    /\ UNCHANGED <<putSm, putData, deadline, fifoStuck, mem, mapped, smLocked,
                   txfWrites, putResult>>
    /\ OtherThanPut

\* sm.pio.writeReg(PIOBaseAddr+smOffset+SM0_TXF, data); return nil
PutWrite ==
    /\ putPc = "write"
    /\ IF ~RegAccepted(PIOBaseAddr + TxfOff(putSm))
       THEN /\ PutReturn("failed to write to FIFO")
            /\ UNCHANGED <<mem, txfWrites>>
       ELSE /\ mem' = [mem EXCEPT ![TxfOff(putSm)] = putData]
            /\ txfWrites' = Append(txfWrites, putData)
            /\ PutReturn("nil")
    /\ UNCHANGED <<putSm, putData, now, deadline, fifoStuck, mapped>>
    /\ OtherThanPut

\* Time passes between two statements of Put.
Elapse ==
    /\ putPc \notin {"idle", "returned"}
    /\ now < MaxTime
    /\ now' = now + 1
    /\ UNCHANGED <<putPc, putSm, putData, deadline, fifoStuck, mem, mapped, smLocked,
                   txfWrites, putResult>>
    /\ OtherThanPut

\* The state machine takes a word out of a full FIFO: the full flag clears.
FifoDrains ==
    /\ ~fifoStuck
    /\ mem[FstatOff(putSm)] = 1
    /\ mem' = [mem EXCEPT ![FstatOff(putSm)] = 0]
    /\ UNCHANGED <<putPc, putSm, putData, now, deadline, fifoStuck, mapped, smLocked,
                   txfWrites, putResult>>
    /\ OtherThanPut

\* The FIFO fills up (the state machine is stalled): the full flag is set.
FifoFills ==
    /\ ~fifoStuck
    /\ mem[FstatOff(putSm)] = 0
    /\ mem' = [mem EXCEPT ![FstatOff(putSm)] = 1]
    /\ UNCHANGED <<putPc, putSm, putData, now, deadline, fifoStuck, mapped, smLocked,
                   txfWrites, putResult>>
    /\ OtherThanPut

\* Another goroutine closes the PIO controller (PIO.Close takes p.mu, not
\* sm.mu): p.mem becomes nil.
PioUnmapped ==
    /\ mapped
    /\ putPc # "idle"
    /\ mapped' = FALSE
    /\ UNCHANGED <<putPc, putSm, putData, now, deadline, fifoStuck, mem, smLocked,
                   txfWrites, putResult>>
    /\ OtherThanPut

\* The state machine state of a program that is not inside Put.
PutIdle ==
    /\ putPc = "idle"
    /\ putSm = 0
    /\ putData = 0
    /\ now = 0
    /\ deadline = 0
    /\ fifoStuck = FALSE
    /\ mem = [off \in RegOffsets |-> 0]
    /\ mapped = TRUE
    /\ smLocked = FALSE
    /\ txfWrites = <<>>
    /\ putResult = "none"

\* A started state machine in any slot, its FIFO full or not; the full flag
\* of a stuck FIFO is set and never clears.
PutInit ==
    /\ putPc = "idle"
    /\ putSm \in Slots
    /\ putData = 0
    /\ now = 0
    /\ deadline = 0
    /\ fifoStuck \in BOOLEAN
    /\ \E full \in {0, 1} :
         /\ fifoStuck => full = 1
         /\ mem = [off \in RegOffsets |-> IF off = FstatOff(putSm) THEN full ELSE 0]
    /\ mapped = TRUE
    /\ smLocked = FALSE
    /\ txfWrites = <<>>
    /\ putResult = "none"

PutNext ==
    \/ PutCall
    \/ PutPoll
    \/ PutCheck
    \/ PutSleep
    \/ PutWrite
    \/ Elapse
    \/ FifoDrains
    \/ FifoFills
    \/ PioUnmapped

----------------------------------------------------------------------------
\* The Close methods. Every release can fail: failing is the set of releases
\* the environment makes fail, attempted the releases made so far.

\* Most lines a closed HUB75Controller holds in the model.
MaxCloseLines == 3

OtherThanClose == UNCHANGED <<putVars, ledVars, extraVars>>

\* What a Close of RGBMatrix or PIO leaves alone in the controller's state.
NoScan == UNCHANGED scanVars

\* RGBMatrix.Close: m.pio.Stop(), m.mem.Close(), m.pin.Close()
MatrixReleases == <<"pio.Stop", "mem.Close", "pin.Close">>

\* PIO.Close: unix.Munmap(p.mem), p.pio.Close(), p.chip.Close()
PioReleases == <<"unix.Munmap", "pio.Close", "chip.Close">>

CloseReturn(res) ==
    /\ closeResult' = res
    /\ closePc' = "returned"

Attempt(r) == attempted' = Append(attempted, r)

\* if err := m.pio.Stop(); err != nil { return fmt.Errorf("failed to stop PIO: %v", err) }
MatrixCloseStop ==
    /\ closer = "RGBMatrix"
    /\ closePc = "pio.Stop"
    /\ Attempt("pio.Stop")
    /\ IF "pio.Stop" \in failing
       THEN CloseReturn("failed to stop PIO")
       ELSE closePc' = "mem.Close" /\ UNCHANGED closeResult
    /\ UNCHANGED <<closer, owned, failing>>
    /\ NoScan
    /\ OtherThanClose

\* if err := m.mem.Close(); err != nil { return fmt.Errorf("failed to close memory map: %v", err) }
MatrixCloseMem ==
    /\ closer = "RGBMatrix"
    /\ closePc = "mem.Close"
    /\ Attempt("mem.Close")
    /\ IF "mem.Close" \in failing
       THEN CloseReturn("failed to close memory map")
       ELSE closePc' = "pin.Close" /\ UNCHANGED closeResult
    /\ UNCHANGED <<closer, owned, failing>>
    /\ NoScan
    /\ OtherThanClose

\* m.pin.Close(): gpio.Pin.Close logs a failing unexport and returns nil
MatrixClosePin ==
    /\ closer = "RGBMatrix"
    /\ closePc = "pin.Close"
    /\ Attempt("pin.Close")
    /\ CloseReturn("nil")
    /\ UNCHANGED <<closer, owned, failing>>
    /\ NoScan
    /\ OtherThanClose

\* if p.mem != nil { if err := unix.Munmap(p.mem); err != nil { return ... }; p.mem = nil }
PioCloseMunmap ==
    /\ closer = "PIO"
    /\ closePc = "unix.Munmap"
    /\ IF ~mapped
       THEN /\ closePc' = "pio.Close"
            /\ UNCHANGED <<attempted, closeResult, mapped>>
       ELSE /\ Attempt("unix.Munmap")
            /\ IF "unix.Munmap" \in failing
               THEN CloseReturn("munmap failed") /\ UNCHANGED mapped
               ELSE /\ mapped' = FALSE
                    /\ closePc' = "pio.Close"
                    /\ UNCHANGED closeResult
    /\ UNCHANGED <<closer, owned, failing>>
    /\ NoScan
    /\ UNCHANGED <<putPc, putSm, putData, now, deadline, fifoStuck, mem, smLocked,
                   txfWrites, putResult>>
    /\ UNCHANGED <<ledVars, extraVars>>

\* if p.pio != nil { p.pio.Close(); p.pio = nil }
PioCloseFile ==
    /\ closer = "PIO"
    /\ closePc = "pio.Close"
    /\ Attempt("pio.Close")
    /\ closePc' = "chip.Close"
    /\ UNCHANGED <<closer, owned, failing, closeResult>>
    /\ NoScan
    /\ OtherThanClose

\* if p.chip != nil { p.chip.Close(); p.chip = nil }; return nil
PioCloseChip ==
    /\ closer = "PIO"
    /\ closePc = "chip.Close"
    /\ Attempt("chip.Close")
    /\ CloseReturn("nil")
    /\ UNCHANGED <<closer, owned, failing>>
    /\ NoScan
    /\ OtherThanClose

\* for pin, line := range c.lines { if err := line.Close(); err != nil { log } }
\* (Go ranges over a map in no fixed order)
CtrlCloseLine ==
    /\ closer = "HUB75Controller"
    /\ closePc = "lines"
    /\ \E pin \in lines \ Range(attempted) :
         /\ Attempt(pin)
         /\ held' = IF pin \in failing THEN held ELSE held \ {pin}
    /\ UNCHANGED <<closer, owned, closePc, failing, closeResult>>
    /\ UNCHANGED <<path, loopPc, sigChan, patternCounter, frameData, rowIdx, pc, k, col,
                   lines, level, trace, shiftReg, latched, rowsStarted, rowsDone,
                   renderErr>>
    /\ OtherThanClose

\* c.lines = make(map[int]*gpiocdev.Line); return nil
CtrlCloseClear ==
    /\ closer = "HUB75Controller"
    /\ closePc = "lines"
    /\ lines \subseteq Range(attempted)
    /\ lines' = {}
    /\ CloseReturn("nil")
    /\ UNCHANGED <<closer, owned, failing, attempted>>
    /\ UNCHANGED <<path, loopPc, sigChan, patternCounter, frameData, rowIdx, pc, k, col,
                   held, level, trace, shiftReg, latched, rowsStarted, rowsDone,
                   renderErr>>
    /\ OtherThanClose

\* No Close is running.
CloseIdle ==
    /\ closer = "none"
    /\ owned = {}
    /\ closePc = "idle"
    /\ failing = {}
    /\ attempted = <<>>
    /\ closeResult = "none"

\* The first n pins of the list NewHUB75Controller requests.
FirstPins(n) == {GetPins[i] : i \in 1..n}

\* Close has just been called: on an RGBMatrix, on a PIO, or on a
\* HUB75Controller that holds the lines requested so far (NewHUB75Controller
\* calls Close when a request fails; main defers it).
CloseInit ==
    /\ owned = CASE closer = "RGBMatrix" -> Range(MatrixReleases)
                 [] closer = "PIO" -> Range(PioReleases)
                 [] OTHER -> {}
               \cup IF closer = "HUB75Controller" THEN lines ELSE {}
    /\ closePc = CASE closer = "RGBMatrix" -> "pio.Stop"
                   [] closer = "PIO" -> "unix.Munmap"
                   [] OTHER -> "lines"
    /\ failing \in SUBSET owned
    /\ attempted = <<>>
    /\ closeResult = "running"

\* The object Close is called on, and the controller state it starts from.
CloseScanInit ==
    /\ path = "gpio"
    /\ loopPc = "stopped"
    /\ sigChan = 0
    /\ patternCounter = 0
    /\ frameData = ZeroFrame
    /\ rowIdx = 0
    /\ pc = "idle"
    /\ k = 0
    /\ col = 0
    /\ closer \in {"RGBMatrix", "PIO", "HUB75Controller"}
    /\ IF closer = "HUB75Controller"
       THEN \E n \in 0..MaxCloseLines : lines = FirstPins(n)
       ELSE lines = {}
    /\ held = lines
    /\ level = [p \in AllPins |-> 0]
    /\ trace = <<>>
    /\ shiftReg = <<>>
    /\ latched = <<>>
    /\ rowsStarted = <<>>
    /\ rowsDone = <<>>
    /\ renderErr = NoErr

CloseNext ==
    \/ MatrixCloseStop
    \/ MatrixCloseMem
    \/ MatrixClosePin
    \/ PioCloseMunmap
    \/ PioCloseFile
    \/ PioCloseChip
    \/ CtrlCloseLine
    \/ CtrlCloseClear

----------------------------------------------------------------------------
\* PIO.WriteLEDData(rowData, row).

\* ROWS = 16, the addressable rows of a panel.
ROWS == 16

\* Longest rowData handed to WriteLEDData in the model, in bytes.
MaxLedBytes == 3

OtherThanLed == UNCHANGED <<scanVars, putVars, closeVars, extraVars>>

\* fifo := 0x200 + uint32(row)*0x10
LedFifo(row) == 512 + row * 16

\* rowAddr := uint32(row & 0x7)
LedRowAddr(row) == row % 8

\* data := uint32(r)<<16 | uint32(g)<<8 | uint32(b)
LedPack(r, g, b) == r * 65536 + g * 256 + b

\* One writeReg call, its error dropped by WriteLEDData.
LedWrite(addr, val) == <<addr, val, RegAccepted(addr)>>

\* The writeReg calls of the pixel loop from byte i on.
RECURSIVE LedPixelWrites(_, _, _)
LedPixelWrites(rowData, row, i) ==
    IF i >= Len(rowData) THEN <<>>
    ELSE <<LedWrite(LedFifo(row) + 4,
                    LedPack(At(rowData, i), At(rowData, i + 1), At(rowData, i + 2)))>>
         \o LedPixelWrites(rowData, row, i + 3)

\* rowData[i+1] or rowData[i+2] is out of range: the Go runtime panics
LedPanics(rowData) == Len(rowData) % 3 # 0

\* p.writeReg(fifo, rowAddr); the pixel loop; p.writeReg(fifo+0, 0xFF); return nil
WriteLEDData ==
    /\ ledPc = "call"
    /\ IF LedPanics(ledData)
       THEN /\ ledResult' = "panic"
            /\ ledWrites' = <<LedWrite(LedFifo(ledRow), LedRowAddr(ledRow))>>
                            \o LedPixelWrites(SubSeq(ledData, 1, Len(ledData) - (Len(ledData) % 3)),
                                              ledRow, 0)
       ELSE /\ ledResult' = "nil"
            /\ ledWrites' = <<LedWrite(LedFifo(ledRow), LedRowAddr(ledRow))>>
                            \o LedPixelWrites(ledData, ledRow, 0)
                            \o <<LedWrite(LedFifo(ledRow), 255)>>
    /\ ledPc' = "done"
    /\ UNCHANGED <<ledRow, ledData>>
    /\ OtherThanLed

RECURSIVE SeqsUpTo(_, _)
\* The sequences over S of length at most n.
SeqsUpTo(S, n) ==
    IF n = 0 THEN {<<>>}
    ELSE LET shorter == SeqsUpTo(S, n - 1)
         IN  shorter \cup {Append(q, x) : q \in shorter, x \in S}

\* WriteLEDData is not being called.
LedIdle ==
    /\ ledPc = "idle"
    /\ ledRow = 0
    /\ ledData = <<>>
    /\ ledWrites = <<>>
    /\ ledResult = "none"

\* WriteLEDData is called with any row of the panel and any short rowData.
LedInit ==
    /\ ledPc = "call"
    /\ ledRow \in 0..(ROWS - 1)
    /\ ledData \in SeqsUpTo({0, 255}, MaxLedBytes)
    /\ ledWrites = <<>>
    /\ ledResult = "none"

LedNext == WriteLEDData

----------------------------------------------------------------------------
\* Acquiring and releasing pins, lines and mappings: gpio.NewPin and
\* Pin.Close, NewHUB75Controller and its Close, HUB75Program's lines and
\* Close, NewPIO, PIO.Close and NewStateMachine. One caller makes the calls
\* one after the other.

\* Calls the caller makes.
MaxAcqOps == 3
\* Close calls followed on one gpio.Pin.
MaxPinCloses == 2

\* DefaultPin = 18
DefaultPin == 18

\* What an acquisition step leaves alone outside this part of the state.
OtherThanAcq == UNCHANGED <<putVars, closeVars, ledVars, regVars, slotVars, pinVars, matVars, smCloseVars, fifoVars, shutVars, netVars>>

\* The controller state other than the lines.
AcqScanRest ==
    UNCHANGED <<path, loopPc, sigChan, patternCounter, frameData, rowIdx, pc, k, col,
                level, trace, shiftReg, latched, rowsStarted, rowsDone, renderErr>>

NoLines == UNCHANGED <<lines, held, lineCloses>>

NoSysfs == UNCHANGED <<exported, pinHandles>>

Count(s, x) == Cardinality({i \in 1..Len(s) : s[i] = x})

\* The pins of GetPins that are in S, in the order of GetPins.
PinsIn(S) == SelectSeq(GetPins, LAMBDA p : p \in S)

\* A call can start: the caller is not inside another one.
AcqCanCall == acqPc \in {"idle", "returned"} /\ acqCount < MaxAcqOps

\* The call op starts with the pins it was handed, owning own.
AcqCall(op, pins, own, rel) ==
    /\ acqOp' = op
    /\ acqK' = 0
    /\ acqPins' = pins
    /\ acqCount' = acqCount + 1
    /\ acquired' = own
    /\ released' = rel

AcqGoto(p) == acqPc' = p /\ acqResult' = "running"

AcqReturn(res) == acqPc' = "returned" /\ acqResult' = res

\* Inside a call: nothing of the call's own bookkeeping changes.
AcqSameCall == UNCHANGED <<acqOp, acqPins, acqCount>>

\* NewPin: exportPin(number). Writing a pin that is exported already to
\* /sys/class/gpio/export fails with "device or resource busy", which NewPin
\* ignores; any other error is returned.
NewPinExport ==
    /\ AcqCanCall
    /\ IF DefaultPin \in exported
       THEN /\ AcqCall("NewPin", <<DefaultPin>>, {}, <<>>)
            /\ AcqGoto("NewPin.direction")
            /\ UNCHANGED exported
       ELSE \E ok \in BOOLEAN :
              /\ AcqCall("NewPin", <<DefaultPin>>, IF ok THEN {DefaultPin} ELSE {}, <<>>)
              /\ exported' = IF ok THEN exported \cup {DefaultPin} ELSE exported
              /\ IF ok THEN AcqGoto("NewPin.direction") ELSE AcqReturn("error")
    /\ UNCHANGED <<objects, pinHandles, mappings>>
    /\ NoLines
    /\ AcqScanRest
    /\ OtherThanAcq

\* NewPin: setPinDirection(number, "out"); return &Pin{number: number}, nil.
\* A failure returns the error; the pin stays exported.
NewPinDirection ==
    /\ acqPc = "NewPin.direction"
    /\ \E ok \in BOOLEAN :
         IF ok
         THEN /\ pinHandles' = Append(pinHandles, [number |-> acqPins[1], unexports |-> 0])
              /\ AcqReturn("nil")
         ELSE /\ UNCHANGED pinHandles
              /\ AcqReturn("error")
    /\ AcqSameCall
    /\ UNCHANGED <<acqK, objects, exported, mappings, acquired, released>>
    /\ NoLines
    /\ AcqScanRest
    /\ OtherThanAcq

\* Pin.Close: unexportPin(p.number), its error logged; return nil. The Pin
\* keeps no record of having been closed.
PinClose ==
    /\ AcqCanCall
    /\ \E h \in 1..Len(pinHandles) :
         /\ pinHandles[h].unexports < MaxPinCloses
         /\ AcqCall("Pin.Close", <<pinHandles[h].number>>, {pinHandles[h].number},
                    <<pinHandles[h].number>>)
         /\ pinHandles' = [pinHandles EXCEPT ![h].unexports = @ + 1]
         /\ \E ok \in BOOLEAN :
              exported' = IF ok THEN exported \ {pinHandles[h].number} ELSE exported
    /\ AcqReturn("nil")
    /\ UNCHANGED <<objects, mappings>>
    /\ NoLines
    /\ AcqScanRest
    /\ OtherThanAcq

\* line.Close() on every line of S, and the map replaced by an empty one.
LinesClosed(S) ==
    /\ held' = held \ S
    /\ lines' = {}
    /\ lineCloses' = [p \in AllPins |-> IF p \in S THEN lineCloses[p] + 1
                                        ELSE lineCloses[p]]

\* NewHUB75Controller is called: ctrl.lines is an empty map.
NewCtrlCall ==
    /\ AcqCanCall
    /\ objects \cap {"ctrl", "prog"} = {}
    /\ AcqCall("NewHUB75Controller", GetPins, {}, <<>>)
    /\ AcqGoto("NewCtrl.request")
    /\ UNCHANGED <<objects, mappings>>
    /\ NoSysfs
    /\ NoLines
    /\ AcqScanRest
    /\ OtherThanAcq

\* line, err := gpiocdev.RequestLine("gpiochip0", pin, AsOutput(0));
\* ctrl.lines[pin] = line. A line that is held already cannot be requested.
NewCtrlRequest ==
    /\ acqPc = "NewCtrl.request"
    /\ LET pin == At(acqPins, acqK) IN
         \E ok \in BOOLEAN :
           IF ok /\ pin \notin held
           THEN /\ lines' = lines \cup {pin}
                /\ held' = held \cup {pin}
                /\ lineCloses' = [lineCloses EXCEPT ![pin] = 0]
                /\ acquired' = acquired \cup {pin}
                /\ acqK' = acqK + 1
                /\ IF acqK + 1 < Len(acqPins)
                   THEN AcqGoto("NewCtrl.request") /\ UNCHANGED objects
                   ELSE AcqReturn("nil") /\ objects' = objects \cup {"ctrl"}
           ELSE /\ AcqGoto("NewCtrl.cleanup")
                /\ UNCHANGED <<acqK, objects, acquired>>
                /\ NoLines
    /\ AcqSameCall
    /\ UNCHANGED <<released, mappings>>
    /\ NoSysfs
    /\ AcqScanRest
    /\ OtherThanAcq

\* if err != nil { ctrl.Close(); return nil, err }
NewCtrlCleanup ==
    /\ acqPc = "NewCtrl.cleanup"
    /\ released' = released \o PinsIn(lines)
    /\ LinesClosed(lines)
    /\ AcqReturn("error")
    /\ AcqSameCall
    /\ UNCHANGED <<acqK, objects, acquired, mappings>>
    /\ NoSysfs
    /\ AcqScanRest
    /\ OtherThanAcq

\* HUB75Controller.Close / HUB75Program.Close: every line of the map is
\* closed (an error is logged or dropped), the map is replaced by an empty
\* one, and nil is returned.
LinesClose ==
    /\ AcqCanCall
    /\ \E o \in objects \cap {"ctrl", "prog"} :
         AcqCall(IF o = "ctrl" THEN "HUB75Controller.Close" ELSE "HUB75Program.Close",
                 PinsIn(lines), lines, PinsIn(lines))
    /\ LinesClosed(lines)
    /\ AcqReturn("nil")
    /\ UNCHANGED <<objects, mappings>>
    /\ NoSysfs
    /\ AcqScanRest
    /\ OtherThanAcq

\* HUB75Program.UpdateRow is called: it first makes sure of its lines.
ProgLinesCall ==
    /\ AcqCanCall
    /\ "sm" \in objects
    /\ "ctrl" \notin objects
    /\ AcqCall("HUB75Program.UpdateRow", RowPins, {}, <<>>)
    /\ AcqGoto("ProgLines.request")
    /\ objects' = objects \cup {"prog"}
    /\ UNCHANGED mappings
    /\ NoSysfs
    /\ NoLines
    /\ AcqScanRest
    /\ OtherThanAcq

\* getOrRequestLine(sm, pin): a pin of p.lines is kept, another one is
\* requested and stored; the first failure is returned.
ProgLinesRequest ==
    /\ acqPc = "ProgLines.request"
    /\ LET pin == At(acqPins, acqK)
           next == IF acqK + 1 < Len(acqPins) THEN AcqGoto("ProgLines.request")
                   ELSE AcqReturn("nil")
       IN  IF pin \in lines
           THEN /\ next
                /\ UNCHANGED acquired
                /\ NoLines
           ELSE \E ok \in BOOLEAN :
                  IF ok /\ pin \notin held
                  THEN /\ lines' = lines \cup {pin}
                       /\ held' = held \cup {pin}
                       /\ lineCloses' = [lineCloses EXCEPT ![pin] = 0]
                       /\ acquired' = acquired \cup {pin}
                       /\ next
                  ELSE /\ AcqReturn("error")
                       /\ UNCHANGED acquired
                       /\ NoLines
    /\ acqK' = acqK + 1
    /\ AcqSameCall
    /\ UNCHANGED <<objects, released, mappings>>
    /\ NoSysfs
    /\ AcqScanRest
    /\ OtherThanAcq

\* NewPIO: gpiocdev.NewChip, os.OpenFile("/dev/mem"), mapMemory(pio,
\* PIOBaseAddr, PIOMemSize). Mapping /dev/mem does not depend on the region
\* being mapped already.
NewPIOCall ==
    /\ AcqCanCall
    /\ "pio" \notin objects
    /\ AcqCall("NewPIO", <<>>, {}, <<>>)
    /\ \E ok \in BOOLEAN :
         IF ok
         THEN /\ mappings' = mappings + 1
              /\ objects' = objects \cup {"pio"}
              /\ AcqReturn("nil")
         ELSE /\ UNCHANGED <<mappings, objects>>
              /\ AcqReturn("error")
    /\ NoSysfs
    /\ NoLines
    /\ AcqScanRest
    /\ OtherThanAcq

\* PIO.Close on a PIO whose p.mem is not nil: unix.Munmap(p.mem)
PioClose ==
    /\ AcqCanCall
    /\ "pio" \in objects
    /\ AcqCall("PIO.Close", <<>>, {}, <<>>)
    /\ \E ok \in BOOLEAN :
         IF ok
         THEN /\ mappings' = mappings - 1
              /\ objects' = objects \ {"pio"}
              /\ AcqReturn("nil")
         ELSE /\ UNCHANGED <<mappings, objects>>
              /\ AcqReturn("error")
    /\ NoSysfs
    /\ NoLines
    /\ AcqScanRest
    /\ OtherThanAcq

\* NewStateMachine(cfg): gpiocdev.NewChip(cfg.ChipNumber), then NewPIO(),
\* which maps the region for this state machine.
NewSmCall ==
    /\ AcqCanCall
    /\ "sm" \notin objects
    /\ \E pins \in SmPinSets : AcqCall("NewStateMachine", PinsIn(pins), {}, <<>>)
    /\ \E ok \in BOOLEAN :
         IF ok
         THEN /\ mappings' = mappings + 1
              /\ AcqGoto("NewSm.configure")
         ELSE /\ UNCHANGED mappings
              /\ AcqReturn("error")
    /\ UNCHANGED objects
    /\ NoSysfs
    /\ NoLines
    /\ AcqScanRest
    /\ OtherThanAcq

\* sm.init: for _, pin := range sm.pins { sm.ConfigurePin(pin) }, where
\* ConfigurePin requests the line and drops the handle. When a request fails
\* NewStateMachine closes the chip and the PIO and returns the error.
NewSmConfigure ==
    /\ acqPc = "NewSm.configure"
    /\ LET pin == At(acqPins, acqK) IN
         \E ok \in BOOLEAN :
           IF ok /\ pin \notin held
           THEN /\ held' = held \cup {pin}
                /\ acquired' = acquired \cup {pin}
                /\ acqK' = acqK + 1
                /\ AcqGoto(IF acqK + 1 < Len(acqPins) THEN "NewSm.configure"
                           ELSE "NewSm.load")
                /\ UNCHANGED mappings
           ELSE /\ mappings' = mappings - 1
                /\ AcqReturn("error")
                /\ UNCHANGED <<held, acquired, acqK>>
    /\ AcqSameCall
    /\ UNCHANGED <<objects, released, lines, lineCloses>>
    /\ NoSysfs
    /\ AcqScanRest
    /\ OtherThanAcq

\* sm.init: sm.loadProgram(); on an error chip.Close(), pio.Close(), return
NewSmLoad ==
    /\ acqPc = "NewSm.load"
    /\ \E ok \in BOOLEAN :
         IF ok
         THEN /\ objects' = objects \cup {"sm"}
              /\ AcqReturn("nil")
              /\ UNCHANGED mappings
         ELSE /\ mappings' = mappings - 1
              /\ AcqReturn("error")
              /\ UNCHANGED objects
    /\ AcqSameCall
    /\ UNCHANGED <<acqK, acquired, released>>
    /\ NoSysfs
    /\ NoLines
    /\ AcqScanRest
    /\ OtherThanAcq

\* Nothing has been acquired and no call has been made.
AcqIdle ==
    /\ acqOp = "none"
    /\ acqPc = "idle"
    /\ acqK = 0
    /\ acqPins = <<>>
    /\ acqCount = 0
    /\ objects = {}
    /\ exported = {}
    /\ pinHandles = <<>>
    /\ mappings = 0
    /\ acquired = {}
    /\ released = <<>>
    /\ lineCloses = [p \in AllPins |-> 0]
    /\ acqResult = "none"

----------------------------------------------------------------------------
\* Access to a mapped register window: PIO.readReg / writeReg / Close
\* (pkg/pio) and MemoryMap.Read32 / Write32 / Close (pkg/mmap). The accessing
\* goroutine and the closing one run side by side: readReg and writeReg take
\* no lock.

\* 32-bit accesses followed.
MaxAccesses == 2

\* Addresses handed to readReg / writeReg: below the window (as WriteLEDData
\* computes them, and just below the base), the first register, a slot
\* register, the last word, inside the last word, and past the window.
RegAddrs ==
    {512, PIOBaseAddr - 4, PIOBaseAddr, PIOBaseAddr + SM0_FSTAT,
     PIOBaseAddr + PIOMemSize - 4, PIOBaseAddr + PIOMemSize - 2,
     PIOBaseAddr + PIOMemSize - 1, PIOBaseAddr + PIOMemSize}

OtherThanReg == UNCHANGED <<scanVars, putVars, closeVars, ledVars, acqVars, slotVars, pinVars, matVars, smCloseVars, fifoVars, shutVars, netVars>>

\* The 32-bit access *(*uint32)(unsafe.Pointer(&mem[offset])) is made.
Access(offset) ==
    accessLog' = Append(accessLog, [offset |-> offset, live |-> winLive])

\* readReg / writeReg up to the dereference: if p.mem == nil { error };
\* offset := addr - PIOBaseAddr; if offset >= uint32(len(p.mem)) { error }
RegCheck ==
    /\ regObj = "PIO"
    /\ regPc \in {"idle", "returned"}
    /\ Len(accessLog) < MaxAccesses
    /\ \E addr \in RegAddrs :
         /\ regAddr' = addr
         /\ IF memNil
            THEN regPc' = "returned" /\ regResult' = "memory not mapped"
            ELSE IF ~InWindow(addr)
            THEN regPc' = "returned" /\ regResult' = "register address out of range"
            ELSE regPc' = "deref" /\ regResult' = "running"
    /\ UNCHANGED <<regObj, memNil, winLive, accessLog>>
    /\ OtherThanReg

\* val := *(*uint32)(unsafe.Pointer(&p.mem[offset])); return val, nil
RegDeref ==
    /\ regObj = "PIO"
    /\ regPc = "deref"
    /\ Access(regAddr - PIOBaseAddr)
    /\ regPc' = "returned"
    /\ regResult' = "nil"
    /\ UNCHANGED <<regObj, regAddr, memNil, winLive>>
    /\ OtherThanReg

\* PIO.Close: if p.mem != nil { unix.Munmap(p.mem); p.mem = nil }
PioCloseWindow ==
    /\ regObj = "PIO"
    /\ ~memNil
    /\ memNil' = TRUE
    /\ winLive' = FALSE
    /\ UNCHANGED <<regObj, regPc, regAddr, accessLog, regResult>>
    /\ OtherThanReg

\* MemoryMap.Read32 / Write32(offset): &m.region[offset] is bounds-checked by
\* the runtime against len(m.region), then four bytes are accessed.
MapAccess ==
    /\ regObj = "MemoryMap"
    /\ regPc \in {"idle", "returned"}
    /\ Len(accessLog) < MaxAccesses
    /\ \E addr \in {a \in RegAddrs : a >= PIOBaseAddr} :
         /\ regAddr' = addr
         /\ IF addr - PIOBaseAddr >= PIOMemSize
            THEN regResult' = "panic: index out of range" /\ UNCHANGED accessLog
            ELSE regResult' = "nil" /\ Access(addr - PIOBaseAddr)
    /\ regPc' = "returned"
    /\ UNCHANGED <<regObj, memNil, winLive>>
    /\ OtherThanReg

\* MemoryMap.Close: return syscall.Munmap(m.region); m.region is kept
MapClose ==
    /\ regObj = "MemoryMap"
    /\ winLive
    /\ winLive' = FALSE
    /\ UNCHANGED <<regObj, regPc, regAddr, memNil, accessLog, regResult>>
    /\ OtherThanReg

\* No register window is modelled.
RegIdle ==
    /\ regObj = "none"
    /\ regPc = "idle"
    /\ regAddr = 0
    /\ memNil = FALSE
    /\ winLive = TRUE
    /\ accessLog = <<>>
    /\ regResult = "none"

\* NewPIO or NewMemoryMap has mapped the window.
RegInit ==
    /\ regObj \in {"PIO", "MemoryMap"}
    /\ regPc = "idle"
    /\ regAddr = 0
    /\ memNil = FALSE
    /\ winLive = TRUE
    /\ accessLog = <<>>
    /\ regResult = "none"

RegNext ==
    \/ RegCheck
    \/ RegDeref
    \/ PioCloseWindow
    \/ MapAccess
    \/ MapClose

\* The state-machine slots: NewStateMachine (init, loadProgram), Start, Stop
\* and HUB75Program.LoadProgram, and the registers they write.

\* Calls made in one run of the model.
MaxSlotOps == 3

\* SM0_CLKDIV = 0x0c8
SM0_CLKDIV == 200

\* SM0_EXECCTRL = 0x0cc
SM0_EXECCTRL == 204

\* SM0_SHIFTCTRL = 0x0d0
SM0_SHIFTCTRL == 208

\* SM0_ADDR = 0x0d4
SM0_ADDR == 212

\* SM0_INSTR = 0x0d8
SM0_INSTR == 216

\* SM0_PINCTRL = 0x0dc
SM0_PINCTRL == 220

\* SM0_RXF = 0x0e4
SM0_RXF == 228

\* SM_OFFSET = 0x024
SM_OFFSET == 36

\* The sub-offsets of the register map.
SubOffsets == {SM0_CLKDIV, SM0_EXECCTRL, SM0_SHIFTCTRL, SM0_ADDR, SM0_INSTR,
               SM0_PINCTRL, SM0_FSTAT, SM0_RXF, SM0_TXF}

\* The register offsets of slot s: smOffset := uint32(sm.sm * 0x40)
SlotRegs(s) == {s * SmStride + sub : sub \in SubOffsets}

\* A pin outside the HUB75 set, for a state machine created with other pins.
SparePin == "GPIO18"

\* The line numbers of the Adafruit RGB Matrix Bonnet pinout.
PinNumber == (R1Pin :> 5) @@ (G1Pin :> 13) @@ (B1Pin :> 6) @@ (R2Pin :> 12) @@
             (G2Pin :> 16) @@ (B2Pin :> 23) @@ (CLKPin :> 17) @@ (OEPin :> 4) @@
             (LAPin :> 21) @@ (ABPin :> 22) @@ (BCPin :> 26) @@ (CCPin :> 27) @@
             (DPin :> 20) @@ (EPin :> 24) @@ (SparePin :> DefaultPin)

\* cfg.Pins of the state machines created.
SmPinLists == {<<SparePin>>, GetPins}

\* GetProgram(): 0x6003, 0xA042, 0x0001
GetProgram == <<24579, 41026, 1>>

\* One writeReg call: a 32-bit store, kept as its two 16-bit halves.
RegWrite(kind, offset, hi, lo) ==
    [kind |-> kind, offset |-> offset, hi |-> hi, lo |-> lo]

\* uint32(instr) stored at offset
InstrWrite(offset, instr) == RegWrite("instr", offset, 0, instr)

\* a value below 2^31 stored in a slot register
WordWrite(offset, val) == RegWrite("reg", offset, val \div 65536, val % 65536)

\* The half-words the model keeps: the instruction memory the two loaders
\* write, the registers of the four slots, and the PINCTRL addresses that
\* HUB75Program.LoadProgram computes.
WordOffsets ==
    {0, 4, 8} \cup UNION {SlotRegs(s) : s \in Slots}
              \cup {s * SM_OFFSET + SM0_PINCTRL : s \in Slots}

HalfOffsets == WordOffsets \cup {o + 2 : o \in WordOffsets}

\* *(*uint32)(unsafe.Pointer(&p.mem[offset])) = val
Store(r, w) ==
    [o \in DOMAIN r |-> IF o = w.offset THEN w.lo
                        ELSE IF o = w.offset + 2 THEN w.hi
                        ELSE r[o]]

RECURSIVE StoreAll(_, _)
StoreAll(r, ws) ==
    IF ws = <<>> THEN r ELSE StoreAll(Store(r, Head(ws)), Tail(ws))

\* pinctrl of loadProgram: base pin, number of pins - 1, OUT_EN, SET_EN,
\* SIDESET_EN
SmPinCtrl(pins) ==
    PinNumber[pins[1]] + (Len(pins) - 1) * Pow2(26) + Pow2(5) + Pow2(7) + Pow2(20)

\* pinCtrl of HUB75Program.LoadProgram: R1, 5 << 20, CLK << 10, 0 << 12
ProgPinCtrl == PinNumber[R1Pin] + 5 * Pow2(20) + PinNumber[CLKPin] * Pow2(10)

\* The writeReg calls of StateMachine.loadProgram, in order.
loadProgramWrites(s, pins) ==
    [i \in 1..Len(GetProgram) |-> InstrWrite((i - 1) * 2, GetProgram[i])]
    \o << WordWrite(s * SmStride + SM0_CLKDIV, 4096),
          RegWrite("reg", s * SmStride + SM0_SHIFTCTRL, 32768, 0),
          WordWrite(s * SmStride + SM0_PINCTRL, SmPinCtrl(pins)),
          WordWrite(s * SmStride + SM0_ADDR, 0) >>

\* The writeReg calls of HUB75Program.LoadProgram, in order.
LoadProgramWrites(s) ==
    [i \in 1..Len(GetProgram) |-> InstrWrite((i - 1) * 4, GetProgram[i])]
    \o << WordWrite(s * SM_OFFSET + SM0_PINCTRL, ProgPinCtrl) >>

\* The writeReg call of Start.
StartWrites(s) == << WordWrite(s * SmStride + SM0_EXECCTRL, 1) >>

\* Stop whose write flips execution control instead of clearing it.
StopWritesToggle(s) ==
    << WordWrite(s * SmStride + SM0_EXECCTRL, 1 - regs[s * SmStride + SM0_EXECCTRL]) >>

\* The writeReg call of Stop.
StopWrites(s) == << WordWrite(s * SmStride + SM0_EXECCTRL, 0) >>

\* Mutant of MutexFree: Lock does not wait for the holder.
MutexFreeAlways(mu) == TRUE

\* Lock() of a sync.Mutex returns only when no goroutine holds the mutex.
MutexFree(mu) == mu = 0

OtherThanSlot == UNCHANGED <<scanVars, putVars, closeVars, ledVars, acqVars, regVars, pinVars, matVars, fifoVars, shutVars, netVars>>

\* A *StateMachine for slot s exists.
SmExists(s) == slotState[s] # "Idle"

\* The pins a ConfigurePin loop requests: those before the first one that
\* is already held (RequestLine fails on it), all of them when none is.
FirstHeld(pins) ==
    IF \E i \in 1..Len(pins) : pins[i] \in slotHeld
    THEN CHOOSE i \in 1..Len(pins) :
             /\ pins[i] \in slotHeld
             /\ \A j \in 1..(i - 1) : pins[j] \notin slotHeld
    ELSE Len(pins) + 1

Requested(pins) == {pins[i] : i \in 1..(FirstHeld(pins) - 1)}

\* One call on slot s: the lines it requests, the registers it writes,
\* what it returns and the lifecycle state it leaves the slot in.
SlotCall(op, s, pins, writes, res, state) ==
    /\ slotCount < MaxSlotOps
    /\ op \in {"Start", "Stop"} => MutexFree(smMu[s])
    /\ IF op = "NewStateMachine" /\ res = "nil"
       THEN /\ smMu' = [smMu EXCEPT ![s] = 0]
            /\ smClosePc' = [smClosePc EXCEPT ![s] = "idle"]
       ELSE UNCHANGED smCloseVars
    /\ slotCount' = slotCount + 1
    /\ slotOp' = op
    /\ slotNo' = s
    /\ slotWas' = slotState[s]
    /\ slotState' = [slotState EXCEPT ![s] = state]
    /\ slotHeld' = slotHeld \cup Requested(pins)
    /\ regWrites' = writes
    /\ regs' = StoreAll(regs, writes)
    /\ slotResult' = res
    /\ OtherThanSlot

\* The state a load leaves the slot in: it does not touch execution control.
AfterLoad(s) == IF slotState[s] = "Running" THEN "Running" ELSE "Configured"

\* NewStateMachine(cfg): init requests cfg.Pins and runs loadProgram.
NewStateMachine ==
    \E s \in Slots, pins \in SmPinLists :
        IF FirstHeld(pins) <= Len(pins)
        THEN SlotCall("NewStateMachine", s, pins, <<>>, "error", slotState[s])
        ELSE SlotCall("NewStateMachine", s, pins, loadProgramWrites(s, pins),
                      "nil", AfterLoad(s))

\* HUB75Program.LoadProgram(sm)
LoadProgram ==
    \E s \in Slots :
        /\ SmExists(s)
        /\ IF FirstHeld(GetPins) <= Len(GetPins)
           THEN SlotCall("LoadProgram", s, GetPins, <<>>, "error", slotState[s])
           ELSE SlotCall("LoadProgram", s, GetPins, LoadProgramWrites(s),
                         "nil", AfterLoad(s))

\* StateMachine.Start
Start ==
    \E s \in Slots :
        /\ SmExists(s)
        /\ SlotCall("Start", s, <<>>, StartWrites(s), "nil", "Running")

\* StateMachine.Stop
Stop ==
    \E s \in Slots :
        /\ SmExists(s)
        /\ SlotCall("Stop", s, <<>>, StopWrites(s), "nil", "Stopped")

\* StateMachine.Close: sm.mu.Lock()
SmCloseLock ==
    \E s \in Slots :
        /\ SmExists(s)
        /\ smClosePc[s] = "idle"
        /\ MutexFree(smMu[s])
        /\ smMu' = [smMu EXCEPT ![s] = 1]
        /\ smClosePc' = [smClosePc EXCEPT ![s] = "locked"]
        /\ UNCHANGED slotVars
        /\ OtherThanSlot

\* StateMachine.Close: sm.Stop(), whose first statement is sm.mu.Lock(). A
\* sync.Mutex is not reentrant: when the mutex is held the goroutine parks
\* until an Unlock. When it is free, Stop writes execution control, and
\* Close closes the chip (releasing its lines) and the register mapping and
\* unlocks.
SmCloseStop ==
    \E s \in Slots :
        /\ smClosePc[s] = "locked"
        /\ IF MutexFree(smMu[s])
           THEN /\ smClosePc' = [smClosePc EXCEPT ![s] = "returned"]
                /\ smMu' = [smMu EXCEPT ![s] = 0]
                /\ slotOp' = "Close"
                /\ slotNo' = s
                /\ slotWas' = slotState[s]
                /\ slotState' = [slotState EXCEPT ![s] = "Stopped"]
                /\ slotHeld' = {}
                /\ regWrites' = StopWrites(s)
                /\ regs' = StoreAll(regs, StopWrites(s))
                /\ slotResult' = "nil"
                /\ UNCHANGED slotCount
           ELSE /\ smClosePc' = [smClosePc EXCEPT ![s] = "parked"]
                /\ UNCHANGED <<smMu, slotVars>>
        /\ OtherThanSlot

\* No state machine has been created.
SlotIdle ==
    /\ slotOp = "none"
    /\ slotNo = 0
    /\ slotCount = 0
    /\ slotWas = "Idle"
    /\ slotState = [s \in Slots |-> "Idle"]
    /\ slotHeld = {}
    /\ regs = [o \in HalfOffsets |-> 0]
    /\ regWrites = <<>>
    /\ slotResult = "none"

SlotNext ==
    \/ NewStateMachine
    \/ LoadProgram
    \/ Start
    \/ Stop
    \/ SmCloseLock
    \/ SmCloseStop

----------------------------------------------------------------------------
\* One gpio.Pin used by several goroutines: SetValue, GetValue, Pulse.

\* Goroutines that share the pin.
NumPinUsers == 2

\* Calls started in one run of the model.
MaxPinCalls == 2

PinUsers == 1..NumPinUsers

OtherThanPin == UNCHANGED <<scanVars, putVars, closeVars, ledVars, acqVars, regVars, slotVars, matVars, smCloseVars, fifoVars, shutVars, netVars>>

\* One access of the pin's value file.
PinAccess(g, kind, val, ok) == [g |-> g, op |-> pinOp[g], kind |-> kind, val |-> val, ok |-> ok]

PinGoto(g, p) == pinPc' = [pinPc EXCEPT ![g] = p]

\* The body is done: the deferred Unlock is what is left.
PinReturn(g, res) ==
    /\ PinGoto(g, "unlock")
    /\ pinResult' = [pinResult EXCEPT ![g] = res]

\* A goroutine calls p.SetValue(value), p.GetValue() or p.Pulse(duration).
PinCallStart ==
    \E g \in PinUsers, op \in {"SetValue", "GetValue", "Pulse"}, v \in {0, 1} :
        /\ pinPc[g] = "idle"
        /\ pinCalls < MaxPinCalls
        /\ op # "SetValue" => v = 0
        /\ pinCalls' = pinCalls + 1
        /\ pinOp' = [pinOp EXCEPT ![g] = op]
        /\ pinArg' = [pinArg EXCEPT ![g] = v]
        /\ pinResult' = [pinResult EXCEPT ![g] = "running"]
        /\ PinGoto(g, "lock")
        /\ UNCHANGED <<pinMu, pinValue, pinLog>>
        /\ OtherThanPin

\* p.mu.Lock()
PinLock ==
    \E g \in PinUsers :
        /\ pinPc[g] = "lock"
        /\ MutexFree(pinMu)
        /\ pinMu' = g
        /\ PinGoto(g, IF pinOp[g] = "SetValue" THEN "write"
                      ELSE IF pinOp[g] = "GetValue" THEN "read" ELSE "rise")
        /\ UNCHANGED <<pinOp, pinArg, pinValue, pinLog, pinCalls, pinResult>>
        /\ OtherThanPin

\* writePinValue(p.number, value): the write takes effect or fails.
WritePinValue(g, value, ok) ==
    /\ pinValue' = IF ok THEN value ELSE pinValue
    /\ pinLog' = Append(pinLog, PinAccess(g, "write", value, ok))

\* SetValue: return writePinValue(p.number, value)
SetValueWrite ==
    \E g \in PinUsers, ok \in BOOLEAN :
        /\ pinPc[g] = "write"
        /\ WritePinValue(g, pinArg[g], ok)
        /\ PinReturn(g, IF ok THEN "nil" ELSE "error")
        /\ UNCHANGED <<pinOp, pinArg, pinMu, pinCalls>>
        /\ OtherThanPin

\* GetValue: value, err := readPinValue(p.number)
GetValueRead ==
    \E g \in PinUsers, ok \in BOOLEAN :
        /\ pinPc[g] = "read"
        /\ pinLog' = Append(pinLog, PinAccess(g, "read", pinValue, ok))
        /\ PinReturn(g, IF ok THEN "nil" ELSE "error")
        /\ UNCHANGED <<pinOp, pinArg, pinMu, pinValue, pinCalls>>
        /\ OtherThanPin

\* Pulse: if err := writePinValue(p.number, 1); err != nil { return err }
PulseRise ==
    \E g \in PinUsers, ok \in BOOLEAN :
        /\ pinPc[g] = "rise"
        /\ WritePinValue(g, 1, ok)
        /\ IF ok THEN PinGoto(g, "hold") /\ UNCHANGED pinResult
           ELSE PinReturn(g, "error")
        /\ UNCHANGED <<pinOp, pinArg, pinMu, pinCalls>>
        /\ OtherThanPin

\* Pulse: time.Sleep(duration)
PulseHold ==
    \E g \in PinUsers :
        /\ pinPc[g] = "hold"
        /\ PinGoto(g, "fall")
        /\ UNCHANGED <<pinOp, pinArg, pinMu, pinValue, pinLog, pinCalls, pinResult>>
        /\ OtherThanPin

\* Pulse: return writePinValue(p.number, 0)
PulseFall ==
    \E g \in PinUsers, ok \in BOOLEAN :
        /\ pinPc[g] = "fall"
        /\ WritePinValue(g, 0, ok)
        /\ PinReturn(g, IF ok THEN "nil" ELSE "error")
        /\ UNCHANGED <<pinOp, pinArg, pinMu, pinCalls>>
        /\ OtherThanPin

\* defer p.mu.Unlock(), and the call returns
PinUnlock ==
    \E g \in PinUsers :
        /\ pinPc[g] = "unlock"
        /\ pinMu' = 0
        /\ PinGoto(g, "idle")
        /\ UNCHANGED <<pinOp, pinArg, pinValue, pinLog, pinCalls, pinResult>>
        /\ OtherThanPin

\* No pin is used.
PinIdle ==
    /\ pinPc = [g \in PinUsers |-> "idle"]
    /\ pinOp = [g \in PinUsers |-> "none"]
    /\ pinArg = [g \in PinUsers |-> 0]
    /\ pinMu = 0
    /\ pinValue = 0
    /\ pinLog = <<>>
    /\ pinCalls = 0
    /\ pinResult = [g \in PinUsers |-> "none"]

\* NewPin has returned the pin; its value is whatever it was left at.
PinInit ==
    /\ pinPc = [g \in PinUsers |-> "idle"]
    /\ pinOp = [g \in PinUsers |-> "none"]
    /\ pinArg = [g \in PinUsers |-> 0]
    /\ pinMu = 0
    /\ pinValue \in {0, 1}
    /\ pinLog = <<>>
    /\ pinCalls = 0
    /\ pinResult = [g \in PinUsers |-> "none"]

PinNext ==
    \/ PinCallStart
    \/ PinLock
    \/ SetValueWrite
    \/ GetValueRead
    \/ PulseRise
    \/ PulseHold
    \/ PulseFall
    \/ PinUnlock

----------------------------------------------------------------------------
\* rpi5matrix.Matrix over rpi5matrix.RGBMatrix, called by several goroutines.

\* Calls started in one run of the model.
MaxMatCalls == 2

\* Goroutines that share the matrix.
MatUsers == {1, 2}

OtherThanMat ==
    UNCHANGED <<scanVars, putVars, closeVars, ledVars, acqVars, regVars, slotVars, pinVars,
                smCloseVars, fifoVars, shutVars, netVars>>

\* The configurations NewMatrix is called with.
MatConfigs ==
    [Width : {0, 2}, Height : {0, 2}, Brightness : {0 - 1, 128, 256}, GPIOPin : {1, 3}]

\* color.RGBA{255, 0, 0, 255} and another opaque colour, as <<R, G, B>>.
Red == <<255, 0, 0>>

MatColors == {Red, <<0, 128, 255>>}

\* A nil color.Color: what make([]color.Color, n) fills the buffer with.
NilColor == <<>>

\* color.RGBA.RGBA() of an opaque colour: every channel v becomes v | v << 8.
RGBA16(c) == [i \in 1..3 |-> c[i] * 257]

\* uint8(r >> 8), uint8(g >> 8), uint8(b >> 8)
High8(c16) == [i \in 1..3 |-> (c16[i] \div 256) % 256]

\* hsvToRGB: return color.RGBA{0, 0, 0, 255}
hsvToRGB(h, s, v) == <<0, 0, 0>>

\* Mutant of ConfigValid: the height is not checked.
ConfigValidNoHeight(cfg) ==
    /\ ~(cfg.Width <= 0)
    /\ ~(cfg.Brightness < 0 \/ cfg.Brightness > 255)

\* cfg.Width <= 0 || cfg.Height <= 0, cfg.Brightness < 0 || cfg.Brightness > 255
ConfigValid(cfg) ==
    /\ ~(cfg.Width <= 0 \/ cfg.Height <= 0)
    /\ ~(cfg.Brightness < 0 \/ cfg.Brightness > 255)

\* Mutant of BrightnessValid: the upper limit is not checked.
BrightnessValidNoUpper(b) == ~(b < 0)

\* brightness < 0 || brightness > 255
BrightnessValid(b) == ~(b < 0 \/ b > 255)

\* Mutant of OutOfBounds: x is not checked against the width.
OutOfBoundsNoUpperX(x, y) == x < 0 \/ y < 0 \/ y >= matrix.height

\* x < 0 || x >= m.width || y < 0 || y >= m.height
OutOfBounds(x, y) == x < 0 \/ x >= matrix.width \/ y < 0 \/ y >= matrix.height

\* Mutant of SerpentineIndex: every row runs left to right from the end of
\* the row before, but odd rows start one cell early.
SerpentineIndexOffByOne(x, y) ==
    IF y % 2 = 0 THEN y * matrix.width + x ELSE y * matrix.width + (matrix.width - x) - 2

\* index = y*m.width + x on even rows, y*m.width + (m.width - 1 - x) on odd rows
SerpentineIndex(x, y) ==
    IF y % 2 = 0 THEN y * matrix.width + x ELSE y * matrix.width + (matrix.width - 1 - x)

\* NewMatrix(cfg). NewRGBMatrix(width, height, pin) is called as
\* NewRGBMatrix(cfg.GPIOPin, cfg.Width, cfg.Height): it exports pin
\* cfg.Height and makes a buffer of cfg.GPIOPin * cfg.Width cells. Each of
\* NewPin, NewMemoryMap and NewPIOState can fail; what was acquired before
\* is then released.
NewMatrix ==
    /\ newResult = "none"
    /\ IF ~ConfigValid(matCfg)
       THEN /\ newResult' = "invalid configuration"
            /\ UNCHANGED <<matMade, matrix, strip, buffer, matHeld>>
       ELSE \E pinOk, memOk, pioOk \in BOOLEAN :
              IF pinOk /\ memOk /\ pioOk
              THEN /\ newResult' = "nil"
                   /\ matMade' = TRUE
                   /\ matrix' = [width |-> matCfg.Width, height |-> matCfg.Height,
                                 brightness |-> matCfg.Brightness]
                   /\ strip' = [width |-> matCfg.GPIOPin, height |-> matCfg.Width,
                                pin |-> matCfg.Height, brightness |-> matCfg.Brightness]
                   /\ buffer' = [i \in 1..(matCfg.GPIOPin * matCfg.Width) |-> NilColor]
                   /\ matHeld' = [pins |-> {matCfg.Height}, maps |-> 1]
              ELSE /\ newResult' = "failed to create RGB matrix"
                   /\ UNCHANGED <<matMade, matrix, strip, buffer, matHeld>>
    /\ UNCHANGED <<matCfg, matPc, matCall, matMu, matResult, matRead, painted, matCalls>>
    /\ OtherThanMat

\* The calls a goroutine can make: coordinates inside the matrix and the
\* four just outside it that the tests use.
MatCoords ==
    ((0..(matrix.width - 1)) \X (0..(matrix.height - 1)))
        \cup {<<matrix.width, 0>>, <<0, 0 - 1>>}

MatCallsOf(xy) ==
    {[op |-> "SetPixel", x |-> xy[1], y |-> xy[2], c |-> c, b |-> 0] : c \in MatColors}
        \cup {[op |-> "SetPixelHSV", x |-> xy[1], y |-> xy[2], c |-> hsvToRGB(0, 1, 1), b |-> 0],
              [op |-> "GetPixelColor", x |-> xy[1], y |-> xy[2], c |-> NilColor, b |-> 0]}

BrightnessCalls ==
    {[op |-> "SetBrightness", x |-> 0, y |-> 0, c |-> NilColor, b |-> b] : b \in {0 - 1, 64, 256}}
        \cup {[op |-> "GetBrightness", x |-> 0, y |-> 0, c |-> NilColor, b |-> 0]}

NoMatCall == [op |-> "none", x |-> 0, y |-> 0, c |-> NilColor, b |-> 0]

MatSameObjects == UNCHANGED <<matCfg, matMade, newResult, matrix, matHeld>>

MatGoto(g, p) == matPc' = [matPc EXCEPT ![g] = p]

MatReturn(g, res, read) ==
    /\ MatGoto(g, "returned")
    /\ matResult' = [matResult EXCEPT ![g] = res]
    /\ matRead' = [matRead EXCEPT ![g] = read]

\* A goroutine calls a method of the matrix. The goroutines are alike:
\* goroutine 1 stands for whichever makes the first call.
MatCallStart ==
    \E g \in MatUsers :
        /\ matMade
        /\ g = 1 \/ matCalls > 0
        /\ matPc[g] \in {"idle", "returned"}
        /\ matCalls < MaxMatCalls
        /\ matCalls' = matCalls + 1
        /\ \E call \in BrightnessCalls \cup UNION {MatCallsOf(xy) : xy \in MatCoords} :
               matCall' = [matCall EXCEPT ![g] = call]
        /\ MatGoto(g, "called")
        /\ matResult' = [matResult EXCEPT ![g] = "running"]
        /\ matRead' = [matRead EXCEPT ![g] = NilColor]
        /\ UNCHANGED <<strip, buffer, matMu, painted>>
        /\ MatSameObjects
        /\ OtherThanMat

\* SetPixel, SetPixelHSV: the bounds check, made before m.mu is taken.
SetPixelCheck ==
    \E g \in MatUsers :
        /\ matPc[g] = "called"
        /\ matCall[g].op \in {"SetPixel", "SetPixelHSV"}
        /\ IF OutOfBounds(matCall[g].x, matCall[g].y)
           THEN MatReturn(g, "error", NilColor)
           ELSE MatGoto(g, "lock") /\ UNCHANGED <<matResult, matRead>>
        /\ UNCHANGED <<strip, buffer, matCall, matMu, painted, matCalls>>
        /\ MatSameObjects
        /\ OtherThanMat

\* SetPixel: m.mu.Lock()
SetPixelLock ==
    \E g \in MatUsers :
        /\ matPc[g] = "lock"
        /\ matMu = 0
        /\ matMu' = g
        /\ MatGoto(g, "store")
        /\ UNCHANGED <<strip, buffer, matCall, matResult, matRead, painted, matCalls>>
        /\ MatSameObjects
        /\ OtherThanMat

\* m.strip.SetPixel(index, c): the cell at index takes c; an index beyond
\* the buffer is refused.
StripSetPixel(index, c) ==
    IF index < 0 \/ index >= Len(buffer) THEN buffer ELSE [buffer EXCEPT ![index + 1] = c]

\* SetPixel: the index, return m.strip.SetPixel(index, c), m.mu.Unlock()
SetPixelStore ==
    \E g \in MatUsers :
        /\ matPc[g] = "store"
        /\ LET call == matCall[g]
               index == SerpentineIndex(call.x, call.y)
           IN  /\ buffer' = StripSetPixel(index, call.c)
               /\ IF index < 0 \/ index >= Len(buffer)
                  THEN /\ MatReturn(g, "error", NilColor)
                       /\ UNCHANGED painted
                  ELSE /\ MatReturn(g, "nil", NilColor)
                       /\ painted' = [painted EXCEPT ![<<call.x, call.y>>] = call.c]
        /\ matMu' = 0
        /\ UNCHANGED <<strip, matCall, matCalls>>
        /\ MatSameObjects
        /\ OtherThanMat

\* GetPixelColor: m.mu.RLock(), the bounds check, the index,
\* m.strip.GetPixelColor(index). Reading a cell that is still nil panics.
GetPixelColor ==
    \E g \in MatUsers :
        /\ matPc[g] = "called"
        /\ matCall[g].op = "GetPixelColor"
        /\ matMu = 0
        /\ LET call == matCall[g]
               index == SerpentineIndex(call.x, call.y)
           IN  IF OutOfBounds(call.x, call.y) THEN MatReturn(g, "error", NilColor)
               ELSE IF index < 0 \/ index >= Len(buffer) THEN MatReturn(g, "error", NilColor)
               ELSE IF buffer[index + 1] = NilColor THEN MatReturn(g, "panic", NilColor)
               ELSE MatReturn(g, "nil", High8(RGBA16(buffer[index + 1])))
        /\ UNCHANGED <<strip, buffer, matrix, matCall, matMu, painted, matCalls>>
        /\ UNCHANGED <<matCfg, matMade, newResult, matHeld>>
        /\ OtherThanMat

\* Matrix.SetBrightness: the range check, m.mu.Lock(),
\* m.strip.SetBrightness(brightness), m.brightness = brightness
SetBrightness ==
    \E g \in MatUsers :
        /\ matPc[g] = "called"
        /\ matCall[g].op = "SetBrightness"
        /\ IF ~BrightnessValid(matCall[g].b)
           THEN /\ MatReturn(g, "error", NilColor)
                /\ UNCHANGED <<matrix, strip>>
           ELSE /\ matMu = 0
                /\ strip' = [strip EXCEPT !.brightness = matCall[g].b]
                /\ matrix' = [matrix EXCEPT !.brightness = matCall[g].b]
                /\ MatReturn(g, "nil", NilColor)
        /\ UNCHANGED <<buffer, matCall, matMu, painted, matCalls>>
        /\ UNCHANGED <<matCfg, matMade, newResult, matHeld>>
        /\ OtherThanMat

\* Matrix.GetBrightness: m.mu.RLock(); return m.brightness
GetBrightness ==
    \E g \in MatUsers :
        /\ matPc[g] = "called"
        /\ matCall[g].op = "GetBrightness"
        /\ matMu = 0
        /\ MatReturn(g, "nil", <<matrix.brightness>>)
        /\ UNCHANGED <<strip, buffer, matCall, matMu, painted, matCalls>>
        /\ MatSameObjects
        /\ OtherThanMat

\* No matrix is modelled.
MatIdle ==
    /\ matCfg = [Width |-> 0, Height |-> 0, Brightness |-> 0, GPIOPin |-> 0]
    /\ matMade = FALSE
    /\ newResult = "none"
    /\ matrix = [width |-> 0, height |-> 0, brightness |-> 0]
    /\ strip = [width |-> 0, height |-> 0, pin |-> 0, brightness |-> 0]
    /\ buffer = <<>>
    /\ matHeld = [pins |-> {}, maps |-> 0]
    /\ matPc = [g \in MatUsers |-> "idle"]
    /\ matCall = [g \in MatUsers |-> NoMatCall]
    /\ matMu = 0
    /\ matResult = [g \in MatUsers |-> "none"]
    /\ matRead = [g \in MatUsers |-> NilColor]
    /\ painted = [xy \in (0..1) \X (0..1) |-> NilColor]
    /\ matCalls = 0

\* NewMatrix is about to be called with one of the configurations.
MatInit ==
    /\ matCfg \in MatConfigs
    /\ matMade = FALSE
    /\ newResult = "none"
    /\ matrix = [width |-> 0, height |-> 0, brightness |-> 0]
    /\ strip = [width |-> 0, height |-> 0, pin |-> 0, brightness |-> 0]
    /\ buffer = <<>>
    /\ matHeld = [pins |-> {}, maps |-> 0]
    /\ matPc = [g \in MatUsers |-> "idle"]
    /\ matCall = [g \in MatUsers |-> NoMatCall]
    /\ matMu = 0
    /\ matResult = [g \in MatUsers |-> "none"]
    /\ matRead = [g \in MatUsers |-> NilColor]
    /\ painted = [xy \in (0..1) \X (0..1) |-> NilColor]
    /\ matCalls = 0

MatNext ==
    \/ NewMatrix
    \/ MatCallStart
    \/ SetPixelCheck
    \/ SetPixelLock
    \/ SetPixelStore
    \/ GetPixelColor
    \/ SetBrightness
    \/ GetBrightness

----------------------------------------------------------------------------
\* Matrix.Scroll and RGBMatrix.Scroll, called on a matrix whose buffer has
\* been painted (Fill with one colour, then one pixel set to another).

\* The square matrices scrolled: Width = Height = GPIOPin, so that the
\* driver NewMatrix creates has the dimensions of the matrix.
ScrollSizes == {2, 3}

\* The offsets Scroll is called with: none, one step either way, and a
\* step beyond the size either way.
ScrollOffsets(n) == {0 - n - 1, 0 - 1, 0, 1, n + 1}

\* Go's remainder a % n for n > 0: the sign of the result is that of a.
GoRem(a, n) == IF a >= 0 THEN a % n ELSE 0 - ((0 - a) % n)

\* srcIndex of RGBMatrix.Scroll for the destination cell (x, y):
\*   srcX := (x + dx + m.width) % m.width
\*   srcY := (y + dy + m.height) % m.height
\*   srcIndex := srcY*m.width + srcX
SrcIndex(x, y, dx, dy) ==
    GoRem(y + dy + strip.height, strip.height) * strip.width
        + GoRem(x + dx + strip.width, strip.width)

\* The cells of the driver, as <<x, y>>.
StripCells == (0..(strip.width - 1)) \X (0..(strip.height - 1))

\* newBuffer[dstIndex] = m.buffer[srcIndex] for every cell, dstIndex := y*m.width + x
Scrolled(dx, dy) ==
    [i \in 1..Len(buffer) |->
        LET x == (i - 1) % strip.width
            y == (i - 1) \div strip.width
        IN  buffer[SrcIndex(x, y, dx, dy) + 1]]

\* The single goroutine calls Scroll or GetPixelColor.
ScrollCallStart ==
    /\ matMade
    /\ matPc[1] \in {"idle", "returned"}
    /\ matCalls < MaxMatCalls
    /\ matCalls' = matCalls + 1
    /\ \E call \in {[op |-> "Scroll", x |-> dx, y |-> dy, c |-> NilColor, b |-> 0] :
                        dx \in ScrollOffsets(matrix.width),
                        dy \in ScrollOffsets(matrix.height)}
                   \cup {[op |-> "GetPixelColor", x |-> xy[1], y |-> xy[2],
                          c |-> NilColor, b |-> 0] :
                            xy \in (0..(matrix.width - 1)) \X (0..(matrix.height - 1))} :
           matCall' = [matCall EXCEPT ![1] = call]
    /\ MatGoto(1, "called")
    /\ matResult' = [matResult EXCEPT ![1] = "running"]
    /\ matRead' = [matRead EXCEPT ![1] = NilColor]
    /\ UNCHANGED <<strip, buffer, matMu, painted>>
    /\ MatSameObjects
    /\ OtherThanMat

\* Matrix.Scroll: m.mu.Lock(), m.strip.Scroll(dx, dy). RGBMatrix.Scroll
\* copies every cell from its source index, panicking on an index outside
\* the buffer, replaces the buffer and returns m.show(), whose writes to
\* the PIO can fail.
Scroll ==
    /\ matPc[1] = "called"
    /\ matCall[1].op = "Scroll"
    /\ matMu = 0
    /\ LET dx == matCall[1].x
           dy == matCall[1].y
       IN  IF \E xy \in StripCells :
                  SrcIndex(xy[1], xy[2], dx, dy) \notin 0..(Len(buffer) - 1)
           THEN /\ MatReturn(1, "panic", NilColor)
                /\ UNCHANGED buffer
           ELSE /\ buffer' = Scrolled(dx, dy)
                /\ \E shown \in BOOLEAN :
                       MatReturn(1, IF shown THEN "nil" ELSE "error", NilColor)
    /\ UNCHANGED <<strip, matrix, matCall, matMu, painted, matCalls>>
    /\ UNCHANGED <<matCfg, matMade, newResult, matHeld>>
    /\ OtherThanMat

\* A matrix NewMatrix returned for a square configuration, filled with one
\* colour and with one cell of the other colour.
ScrollInit ==
    /\ \E n \in ScrollSizes :
         /\ matCfg = [Width |-> n, Height |-> n, Brightness |-> 128, GPIOPin |-> n]
         /\ matrix = [width |-> n, height |-> n, brightness |-> 128]
         /\ strip = [width |-> n, height |-> n, pin |-> n, brightness |-> 128]
         /\ \E cell \in 1..(n * n) :
              buffer = [i \in 1..(n * n) |-> IF i = cell THEN Red ELSE <<0, 128, 255>>]
         /\ matHeld = [pins |-> {n}, maps |-> 1]
    /\ matMade = TRUE
    /\ newResult = "nil"
    /\ matPc = [g \in MatUsers |-> "idle"]
    /\ matCall = [g \in MatUsers |-> NoMatCall]
    /\ matMu = 0
    /\ matResult = [g \in MatUsers |-> "none"]
    /\ matRead = [g \in MatUsers |-> NilColor]
    /\ painted = [xy \in (0..1) \X (0..1) |-> NilColor]
    /\ matCalls = 0

ScrollNext ==
    \/ ScrollCallStart
    \/ Scroll
    \/ GetPixelColor

\* No Close has been called on any state machine.
SmCloseIdle ==
    /\ smMu = [s \in Slots |-> 0]
    /\ smClosePc = [s \in Slots |-> "idle"]

----------------------------------------------------------------------------
\* PIO.IsFIFOFull, PIO.IsFIFOEmpty and PIO.WaitForFIFO on a mapped controller.

\* Calls made in one run of the model.
MaxFifoCalls == 2
\* The latest time of the model.
MaxFifoTime == 2

\* The timeouts WaitForFIFO is called with, in sleep periods.
FifoTimeouts == {0, 1}

OtherThanFifo ==
    UNCHANGED <<scanVars, putVars, closeVars, ledVars, acqVars, regVars, slotVars, pinVars,
                matVars, smCloseVars, shutVars, netVars>>

\* The word readReg returns for an address it accepts.
FifoWord(addr) == IF addr - PIOBaseAddr = FstatOff(0) THEN fifoStatus ELSE 0

\* The reads IsFIFOFull and IsFIFOEmpty share:
\*   fstat, err := p.readReg(SM0_FSTAT)
\*   base := 0x100 + uint32(fstat)*0x40
\*   val0..val3, err := p.readReg(base + SM0_FSTAT + 0, 4, 8, 12)
\*   status := val0 | (val1 << 8) | (val2 << 16) | (val3 << 24)
\* Bits 0 and 1 of status are those of val0. Every err ends the call.
FifoStatusRead ==
    IF ~RegAccepted(SM0_FSTAT) THEN [ok |-> FALSE, low |-> 0]
    ELSE LET base == 256 + FifoWord(SM0_FSTAT) * 64 IN
         IF \E i \in 0..3 : ~RegAccepted(base + SM0_FSTAT + 4 * i)
         THEN [ok |-> FALSE, low |-> 0]
         ELSE [ok |-> TRUE, low |-> FifoWord(base + SM0_FSTAT) % 4]

\* return (status & 0x1) != 0, nil
FullFlag(low) == low % 2 = 1

\* return (status & 0x2) != 0, nil
EmptyFlag(low) == (low \div 2) % 2 = 1

FifoReturn(flag, err) ==
    /\ fifoPc' = "returned"
    /\ fifoFlag' = flag
    /\ fifoErr' = err

\* The caller calls one of the three methods; WaitForFIFO starts with
\* deadline := time.Now().Add(timeout).
FifoCall ==
    /\ fifoPc \in {"idle", "returned"}
    /\ fifoCalls < MaxFifoCalls
    /\ fifoCalls' = fifoCalls + 1
    /\ \E op \in {"IsFIFOFull", "IsFIFOEmpty", "WaitForFIFO"}, t \in FifoTimeouts :
         /\ fifoOp' = op
         /\ fifoDeadline' = IF op = "WaitForFIFO" THEN fifoNow + t ELSE 0
    /\ fifoPc' = "called"
    /\ fifoFlag' = FALSE
    /\ fifoErr' = "running"
    /\ UNCHANGED <<fifoStatus, fifoNow>>
    /\ OtherThanFifo

\* PIO.IsFIFOFull
IsFIFOFull ==
    /\ fifoPc = "called"
    /\ fifoOp = "IsFIFOFull"
    /\ LET r == FifoStatusRead IN
         IF r.ok THEN FifoReturn(FullFlag(r.low), "nil")
         ELSE FifoReturn(FALSE, "register address out of range")
    /\ UNCHANGED <<fifoOp, fifoStatus, fifoNow, fifoDeadline, fifoCalls>>
    /\ OtherThanFifo

\* PIO.IsFIFOEmpty
IsFIFOEmpty ==
    /\ fifoPc = "called"
    /\ fifoOp = "IsFIFOEmpty"
    /\ LET r == FifoStatusRead IN
         IF r.ok THEN FifoReturn(EmptyFlag(r.low), "nil")
         ELSE FifoReturn(FALSE, "register address out of range")
    /\ UNCHANGED <<fifoOp, fifoStatus, fifoNow, fifoDeadline, fifoCalls>>
    /\ OtherThanFifo

\* PIO.WaitForFIFO, one turn of its loop: full, err := p.IsFIFOFull();
\* return err; return nil when not full; the timeout error once
\* time.Now().After(deadline); else time.Sleep(time.Microsecond).
WaitForFIFO ==
    /\ fifoPc = "called"
    /\ fifoOp = "WaitForFIFO"
    /\ LET r == FifoStatusRead IN
         IF ~r.ok
         THEN FifoReturn(FALSE, "register address out of range") /\ UNCHANGED fifoNow
         ELSE IF ~FullFlag(r.low)
         THEN FifoReturn(FALSE, "nil") /\ UNCHANGED fifoNow
         ELSE IF fifoNow > fifoDeadline
         THEN FifoReturn(FALSE, "timeout waiting for FIFO") /\ UNCHANGED fifoNow
         ELSE /\ fifoNow' = IF fifoNow < MaxFifoTime THEN fifoNow + 1 ELSE MaxFifoTime
              /\ UNCHANGED <<fifoPc, fifoFlag, fifoErr>>
    /\ UNCHANGED <<fifoOp, fifoStatus, fifoDeadline, fifoCalls>>
    /\ OtherThanFifo

\* The state machine fills or drains the FIFO: the flags change.
FifoChanges ==
    /\ \E w \in 0..3 :
         /\ w # fifoStatus
         /\ fifoStatus' = w
    /\ UNCHANGED <<fifoPc, fifoOp, fifoNow, fifoDeadline, fifoFlag, fifoErr, fifoCalls>>
    /\ OtherThanFifo

\* Time passes.
FifoElapse ==
    /\ fifoNow < MaxFifoTime
    /\ fifoNow' = fifoNow + 1
    /\ UNCHANGED <<fifoPc, fifoOp, fifoStatus, fifoDeadline, fifoFlag, fifoErr, fifoCalls>>
    /\ OtherThanFifo

\* None of the FIFO-status methods has been called.
FifoIdle ==
    /\ fifoPc = "idle"
    /\ fifoOp = "none"
    /\ fifoStatus = 2
    /\ fifoNow = 0
    /\ fifoDeadline = 0
    /\ fifoFlag = FALSE
    /\ fifoErr = "none"
    /\ fifoCalls = 0

\* A mapped controller whose FIFO is not full, and empty or not.
FifoInit ==
    /\ fifoPc = "idle"
    /\ fifoOp = "none"
    /\ fifoStatus \in {0, 2}
    /\ fifoNow = 0
    /\ fifoDeadline = 0
    /\ fifoFlag = FALSE
    /\ fifoErr = "none"
    /\ fifoCalls = 0

FifoNext ==
    \/ FifoCall
    \/ IsFIFOFull
    \/ IsFIFOEmpty
    \/ WaitForFIFO
    \/ FifoChanges
    \/ FifoElapse

----------------------------------------------------------------------------
\* Shutdown of cmd/hub75-gpio and cmd/pio: main waits on the stop channel,
\* the display loop sends on it when it receives the signal, and main runs
\* its clean-up and the deferred Close calls.

OtherThanShut ==
    UNCHANGED <<putVars, closeVars, ledVars, acqVars, regVars, slotVars, pinVars, matVars,
                smCloseVars, fifoVars, netVars>>

\* What the clean-up leaves alone in the display loop's state.
ShutScanRest ==
    UNCHANGED <<path, loopPc, sigChan, patternCounter, frameData, rowIdx, pc, k, col,
                level, trace, shiftReg, latched, rowsStarted, rowsDone, renderErr>>

\* <-stop: the goroutine's stop <- struct{}{} meets main's receive.
MainReceivesStop ==
    /\ mainPc = "waiting"
    /\ loopPc = "stopped"
    /\ mainPc' = IF path = "pio" THEN "hub75.Stop" ELSE "ctrl.Close"
    /\ UNCHANGED <<mainMu, lines, held>>
    /\ ShutScanRest
    /\ OtherThanShut

\* cmd/hub75-gpio: main returns; the deferred hub75.Close() closes every
\* line (a failing line.Close is logged and the loop goes on).
MainCtrlClose ==
    /\ mainPc = "ctrl.Close"
    /\ lines' = {}
    /\ held' = held \ lines
    /\ mainPc' = "returned"
    /\ UNCHANGED mainMu
    /\ ShutScanRest
    /\ OtherThanShut

\* cmd/pio: hub75.Stop(sm), that is sm.Stop(): sm.mu.Lock(), the write of
\* execution control, sm.mu.Unlock().
MainStop ==
    /\ mainPc = "hub75.Stop"
    /\ MutexFree(mainMu)
    /\ mainPc' = "sm.Close"
    /\ UNCHANGED <<mainMu, lines, held>>
    /\ ShutScanRest
    /\ OtherThanShut

\* cmd/pio: main returns; the last deferred call runs first:
\* sm.Close(): sm.mu.Lock()
MainSmCloseLock ==
    /\ mainPc = "sm.Close"
    /\ MutexFree(mainMu)
    /\ mainMu' = 1
    /\ mainPc' = "sm.Close: sm.Stop"
    /\ UNCHANGED <<lines, held>>
    /\ ShutScanRest
    /\ OtherThanShut

\* sm.Close(): sm.Stop(), whose sm.mu.Lock() parks main while the mutex is
\* held. With the mutex free Stop and Close go on (the chip is closed, which
\* releases its lines), then hub75.Close() closes the program's lines and
\* p.Close() the mapping, and main returns.
MainSmCloseStop ==
    /\ mainPc = "sm.Close: sm.Stop"
    /\ IF MutexFree(mainMu)
       THEN /\ mainPc' = "returned"
            /\ lines' = {}
            /\ held' = {}
            /\ UNCHANGED mainMu
       ELSE /\ mainPc' = "parked"
            /\ UNCHANGED <<mainMu, lines, held>>
    /\ ShutScanRest
    /\ OtherThanShut

MainNext ==
    \/ MainReceivesStop
    \/ MainCtrlClose
    \/ MainStop
    \/ MainSmCloseLock
    \/ MainSmCloseStop

\* A step of the display goroutine inside RenderFrame.
FrameStep == loopPc = "frame" /\ ScanNext /\ UNCHANGED sigChan

ShutNext ==
    \/ ScanNext
    \/ MainNext

\* main waits on the stop channel.
ShutIdle ==
    /\ mainPc = "waiting"
    /\ mainMu = 0

-----------------------------------------------------------------------------
\* Scanner.scanNetworkRange and its scanIP goroutines.

\* The host addresses the start loop tries, scaled down (1..254 in the code).
MaxHosts == 3

Hosts == 1..MaxHosts

\* Mutant of ResultChanCap: the channel buffers one result fewer than the
\* goroutines that may send.
ResultChanOneShort == MaxHosts - 1

\* make(chan ScanResult, 256): two slots more than the 254 host addresses
ResultChanCap == MaxHosts + 2

OtherThanNet ==
    UNCHANGED <<scanVars, putVars, closeVars, ledVars, acqVars, regVars, slotVars, pinVars,
                matVars, smCloseVars, fifoVars, shutVars>>

\* scanNetworkRange returns (results, err).
NetReturn(err) ==
    /\ netPc' = "returned"
    /\ netErr' = err

\* One turn of the start loop: the select on ctx.Done() with a default,
\* the skip of the network and broadcast addresses, go s.scanIP(...); after
\* the last turn, timeout := time.After(...).
ScanStart ==
    /\ netPc = "start"
    /\ IF ctxDone
       THEN /\ NetReturn("ctx")
            /\ UNCHANGED <<netI, hostPc>>
       ELSE /\ hostPc' = IF netI \in netSkip THEN hostPc ELSE [hostPc EXCEPT ![netI] = "dial"]
            /\ netI' = netI + 1
            /\ netPc' = IF netI = MaxHosts THEN "collect" ELSE "start"
            /\ UNCHANGED netErr
    /\ UNCHANGED <<netGot, netSkip, hostValid, resultChan, netResults, ctxDone, netTimedOut>>
    /\ OtherThanNet

\* One select of the collect loop, taking a case that is ready: a result is
\* received (and appended when Valid), or the timeout or ctx.Done() returns.
\* After the last receive the loop ends and the function returns nil.
ScanCollect ==
    /\ netPc = "collect"
    /\ \/ /\ resultChan # <<>>
          /\ resultChan' = Tail(resultChan)
          /\ netResults' = IF Head(resultChan).valid
                           THEN Append(netResults, Head(resultChan).ip)
                           ELSE netResults
          /\ netGot' = netGot + 1
          /\ IF netGot + 1 = MaxHosts THEN NetReturn("nil") ELSE UNCHANGED <<netPc, netErr>>
       \/ /\ netTimedOut
          /\ NetReturn("nil")
          /\ UNCHANGED <<resultChan, netResults, netGot>>
       \/ /\ ctxDone
          /\ NetReturn("ctx")
          /\ UNCHANGED <<resultChan, netResults, netGot>>
    /\ UNCHANGED <<netI, netSkip, hostPc, hostValid, ctxDone, netTimedOut>>
    /\ OtherThanNet

\* scanIP: net.DialTimeout returns, with an error or with a connection.
HostDial(h) ==
    /\ hostPc[h] = "dial"
    /\ \/ /\ hostPc' = [hostPc EXCEPT ![h] = "send"]
          /\ hostValid' = [hostValid EXCEPT ![h] = FALSE]
       \/ /\ hostPc' = [hostPc EXCEPT ![h] = "validate"]
          /\ UNCHANGED hostValid
    /\ UNCHANGED <<netPc, netI, netGot, netSkip, resultChan, netResults, netErr, ctxDone, netTimedOut>>
    /\ OtherThanNet

\* validateFluidNC(conn): return true
validateFluidNC == TRUE

\* scanIP: conn.SetReadDeadline(...); valid := s.validateFluidNC(conn)
HostValidate(h) ==
    /\ hostPc[h] = "validate"
    /\ hostPc' = [hostPc EXCEPT ![h] = "send"]
    /\ hostValid' = [hostValid EXCEPT ![h] = validateFluidNC]
    /\ UNCHANGED <<netPc, netI, netGot, netSkip, resultChan, netResults, netErr, ctxDone, netTimedOut>>
    /\ OtherThanNet

\* scanIP: resultChan <- ScanResult{...}, which waits while the buffer is
\* full; then the goroutine returns.
HostSend(h) ==
    /\ hostPc[h] = "send"
    /\ Len(resultChan) < ResultChanCap
    /\ resultChan' = Append(resultChan, [ip |-> h, valid |-> hostValid[h]])
    /\ hostPc' = [hostPc EXCEPT ![h] = "done"]
    /\ UNCHANGED <<netPc, netI, netGot, netSkip, hostValid, netResults, netErr, ctxDone, netTimedOut>>
    /\ OtherThanNet

\* The caller cancels ctx while scanNetworkRange runs.
CtxCancel ==
    /\ netPc \in {"start", "collect"}
    /\ ~ctxDone
    /\ ctxDone' = TRUE
    /\ UNCHANGED <<netPc, netI, netGot, netSkip, hostPc, hostValid, resultChan, netResults, netErr, netTimedOut>>
    /\ OtherThanNet

\* The time.After timer fires while the collect loop waits on it.
TimeoutFires ==
    /\ netPc = "collect"
    /\ ~netTimedOut
    /\ netTimedOut' = TRUE
    /\ UNCHANGED <<netPc, netI, netGot, netSkip, hostPc, hostValid, resultChan, netResults, netErr, ctxDone>>
    /\ OtherThanNet

HostNext == \E h \in Hosts : HostDial(h) \/ HostValidate(h) \/ HostSend(h)

NetNext ==
    \/ ScanStart
    \/ ScanCollect
    \/ HostNext
    \/ CtxCancel
    \/ TimeoutFires

NetRest ==
    /\ netI = 1
    /\ netGot = 0
    /\ hostPc = [h \in Hosts |-> "unstarted"]
    /\ hostValid = [h \in Hosts |-> FALSE]
    /\ resultChan = <<>>
    /\ netResults = <<>>
    /\ netErr = "none"
    /\ ctxDone = FALSE
    /\ netTimedOut = FALSE

NetIdle ==
    /\ netPc = "idle"
    /\ netSkip = {}
    /\ NetRest

\* scanNetworkRange is entered: no address of the range, or its last one, is
\* the network or the broadcast address.
NetInit ==
    /\ netPc = "start"
    /\ netSkip \in {{}, {MaxHosts}}
    /\ NetRest

ExtraIdle == AcqIdle /\ RegIdle /\ SlotIdle /\ PinIdle /\ MatIdle /\ SmCloseIdle /\ FifoIdle /\ ShutIdle /\ NetIdle

AcqNext ==
    \/ NewPinExport
    \/ NewPinDirection
    \/ PinClose
    \/ NewCtrlCall
    \/ NewCtrlRequest
    \/ NewCtrlCleanup
    \/ LinesClose
    \/ ProgLinesCall
    \/ ProgLinesRequest
    \/ NewPIOCall
    \/ PioClose
    \/ NewSmCall
    \/ NewSmConfigure
    \/ NewSmLoad

----------------------------------------------------------------------------
\* Specifications.

\* The controller state of a program whose display loop is not modelled.
ScanIdle ==
    /\ path = "pio"
    /\ loopPc = "select"
    /\ sigChan = 0
    /\ patternCounter = 0
    /\ frameData = ZeroFrame
    /\ rowIdx = 0
    /\ pc = "idle"
    /\ k = 0
    /\ col = 0
    /\ lines = {}
    /\ held = {}
    /\ level = [p \in AllPins |-> 0]
    /\ trace = <<>>
    /\ shiftReg = <<>>
    /\ latched = <<>>
    /\ rowsStarted = <<>>
    /\ rowsDone = <<>>
    /\ renderErr = NoErr

Init == ScanInit /\ PutIdle /\ CloseIdle /\ LedIdle /\ ExtraIdle

Next == ScanNext

\* The display loop and the scan-out of both paths.
Spec == Init /\ [][Next]_vars

InitPut == ScanIdle /\ PutInit /\ CloseIdle /\ LedIdle /\ ExtraIdle

\* StateMachine.Put
SpecPut == InitPut /\ [][PutNext]_vars

\* StateMachine.Put, run by a goroutine that is scheduled: every statement of
\* Put that can run eventually runs.
SpecPutFair ==
    /\ SpecPut
    /\ WF_vars(PutPoll)
    /\ WF_vars(PutCheck)
    /\ WF_vars(PutSleep)
    /\ WF_vars(PutWrite)

InitClose == CloseScanInit /\ PutIdle /\ CloseInit /\ LedIdle /\ ExtraIdle

\* The Close methods
SpecClose == InitClose /\ [][CloseNext]_vars

InitLED == ScanIdle /\ PutIdle /\ CloseIdle /\ LedInit /\ ExtraIdle

\* PIO.WriteLEDData
SpecLED == InitLED /\ [][LedNext]_vars

InitAcquire == ScanIdle /\ PutIdle /\ CloseIdle /\ LedIdle /\ AcqIdle /\ RegIdle /\ SlotIdle /\ PinIdle /\ MatIdle /\ SmCloseIdle /\ FifoIdle /\ ShutIdle /\ NetIdle

\* The constructors and Close methods that acquire and release pins
SpecAcquire == InitAcquire /\ [][AcqNext]_vars

InitReg == ScanIdle /\ PutIdle /\ CloseIdle /\ LedIdle /\ AcqIdle /\ RegInit /\ SlotIdle /\ PinIdle /\ MatIdle /\ SmCloseIdle /\ FifoIdle /\ ShutIdle /\ NetIdle

\* Register access side by side with the unmapping of the window
SpecReg == InitReg /\ [][RegNext]_vars

InitRow == RowInit /\ PutIdle /\ CloseIdle /\ LedIdle /\ ExtraIdle

\* One UpdateRow call of either path
SpecRow == InitRow /\ [][RowNext]_vars

InitPin == ScanIdle /\ PutIdle /\ CloseIdle /\ LedIdle /\ AcqIdle /\ RegIdle /\ SlotIdle /\ PinInit /\ MatIdle /\ SmCloseIdle /\ FifoIdle /\ ShutIdle /\ NetIdle

\* SetValue, GetValue and Pulse called on one pin by several goroutines
SpecPin == InitPin /\ [][PinNext]_vars

InitMat == ScanIdle /\ PutIdle /\ CloseIdle /\ LedIdle /\ AcqIdle /\ RegIdle /\ SlotIdle /\ PinIdle /\ MatInit /\ SmCloseIdle /\ FifoIdle /\ ShutIdle /\ NetIdle

\* NewMatrix and the calls on the matrix it returns
SpecMat == InitMat /\ [][MatNext]_vars

InitFifo == ScanIdle /\ PutIdle /\ CloseIdle /\ LedIdle /\ AcqIdle /\ RegIdle /\ SlotIdle /\ PinIdle /\ MatIdle /\ SmCloseIdle /\ FifoInit /\ ShutIdle /\ NetIdle

\* The FIFO-status methods of a mapped PIO controller
SpecFifo == InitFifo /\ [][FifoNext]_vars

InitScroll == ScanIdle /\ PutIdle /\ CloseIdle /\ LedIdle /\ AcqIdle /\ RegIdle /\ SlotIdle /\ PinIdle /\ ScrollInit /\ SmCloseIdle /\ FifoIdle /\ ShutIdle /\ NetIdle

\* Scroll and GetPixelColor on a painted matrix
SpecScroll == InitScroll /\ [][ScrollNext]_vars

InitShut == ScanInit /\ PutIdle /\ CloseIdle /\ LedIdle /\ AcqIdle /\ RegIdle /\ SlotIdle /\ PinIdle /\ MatIdle /\ SmCloseIdle /\ FifoIdle /\ ShutIdle /\ NetIdle

\* The display loop and main up to its return. Both goroutines are
\* scheduled, and a select whose signal case stays ready at every turn
\* eventually takes it (Go picks among the ready cases at random).
SpecShut ==
    /\ InitShut
    /\ [][ShutNext]_vars
    /\ SF_vars(ObserveSignal)
    /\ WF_vars(FrameStep)
    /\ WF_vars(MainNext)

InitSlot == ScanIdle /\ PutIdle /\ CloseIdle /\ LedIdle /\ AcqIdle /\ RegIdle /\ SlotIdle /\ PinIdle /\ MatIdle /\ SmCloseIdle /\ FifoIdle /\ ShutIdle /\ NetIdle

\* The calls on the state-machine slots of one mapped PIO block
SpecSlot == InitSlot /\ [][SlotNext]_vars

----------------------------------------------------------------------------
\* Properties of the scan-out, read off the write trace of the frame in
\* progress. The panel blanks its output while OE is at level 1.

IsAddressWrite(e) == e.kind = "pin" /\ e.pin \in Range(AddrPins)

IsShiftWrite(e) ==
    \/ e.kind = "pin" /\ e.pin \in Range(DataPins) \cup {CLKPin}
    \/ e.kind = "put"

IsLatchWrite(e, v) == e.kind = "pin" /\ e.pin = LAPin /\ e.val = v

IsEnableWrite(e) == e.kind = "pin" /\ e.pin = OEPin /\ e.val = 0

RowEvents(r) == {i \in 1..Len(trace) : trace[i].row = r}

\* RenderFrame has returned to the display loop.
FrameReturned == loopPc # "frame" /\ patternCounter > 0

FrameReturnedNil == FrameReturned /\ renderErr = NoErr

FrameReturnedErr == FrameReturned /\ renderErr # NoErr

\* C1: in both scan-out paths every address-bit write of a row is issued
\* while the output is disabled, and before any data write, clock pulse or
\* FIFO put of that row.
C1_AddressWrittenWhileDisabled ==
    \A i \in 1..Len(trace) :
        IsAddressWrite(trace[i]) =>
            /\ trace[i].oe = 1
            /\ \A j \in 1..(i - 1) :
                 trace[j].row = trace[i].row => ~IsShiftWrite(trace[j])

\* C2: for every row whose update returned success, every data-pin write,
\* clock pulse and FIFO put was issued while the output was disabled; the
\* latch went high and then low once, after the last pixel was shifted; and
\* the output was enabled again only after the latch went low, as the last
\* pin write of the row.
C2_ShiftAndLatchWhileDisabled ==
    \A n \in 1..Len(rowsDone) :
        LET ev == RowEvents(rowsDone[n])
            hi == {i \in ev : IsLatchWrite(trace[i], 1)}
            lo == {i \in ev : IsLatchWrite(trace[i], 0)}
            en == {i \in ev : IsEnableWrite(trace[i])}
        IN  /\ \A i \in ev : IsShiftWrite(trace[i]) => trace[i].oe = 1
            /\ \E i \in ev : IsShiftWrite(trace[i])
            /\ Cardinality(hi) = 1
            /\ Cardinality(lo) = 1
            /\ Cardinality(en) = 1
            /\ \A h \in hi, l \in lo, e \in en :
                 /\ \A i \in ev : IsShiftWrite(trace[i]) => i < h
                 /\ trace[h].oe = 1
                 /\ trace[l].oe = 1
                 /\ h < l
                 /\ l < e
                 /\ \A i \in ev : i <= e

\* A row of the hardware path has been shifted, latched and enabled again.
C2_Witness ==
    /\ path = "pio"
    /\ rowsDone # <<>>
    /\ \E i \in 1..Len(trace) : trace[i].kind = "put"

\* C3: RenderFrame starts the rows in ascending order from 0, each once, and
\* when it returns nil every row 0..numRows-1 was driven and completed once.
C3_RowsOnceAscending ==
    /\ Len(rowsStarted) <= Len(frameData)
    /\ \A i \in 1..Len(rowsStarted) : rowsStarted[i] = i - 1
    /\ \A i \in 1..Len(rowsDone) : rowsDone[i] = i - 1
    /\ \A i \in 1..(Len(trace) - 1) : trace[i].row <= trace[i + 1].row
    /\ FrameReturnedNil =>
         /\ Len(rowsStarted) = Len(frameData)
         /\ rowsDone = rowsStarted
         /\ \A r \in 0..(Len(frameData) - 1) : RowEvents(r) # {}

\* RenderFrame has returned nil for the checkerboard frame.
C3_Witness ==
    /\ FrameReturnedNil
    /\ patternCounter = 4
    /\ Len(rowsDone) = NumRows

\* C4: the address written for row r is r masked to the configured number of
\* address lines, the same mask in every scan-out path: the address word
\* WriteLEDData writes is the one UpdateRow puts on the address lines.
C4_SameAddressMask ==
    ledPc = "done" => ledWrites[1][2] = AddrVal(ledRow)

\* The frame as the panel should hold it: per row, one sample of the six data
\* channels per pixel.
FramePixels ==
    [r \in 1..Len(frameData) |->
        [c \in 1..Width |-> [ch \in 1..6 |-> frameData[r][(c - 1) * 6 + ch]]]]

\* C5: on the software path, for a frame of 0/1 values, the data pins
\* sampled at the rising clock edges and grouped by latch pulse are the
\* frame, row by row, column by column, with Width clock pulses per row.
C5_PanelHoldsFrame ==
    (path = "gpio" /\ FrameReturnedNil) =>
        /\ latched = FramePixels
        /\ \A r \in 1..Len(latched) : Len(latched[r]) = Width

\* C6: after a failing line request, pin write or FIFO put nothing more is
\* issued for the row and it is not retried; RenderFrame returns that first
\* error and drives no later row.
C6_NothingAfterFailure ==
    /\ \A i \in 1..Len(trace) : ~trace[i].ok => i = Len(trace)
    /\ (trace # <<>> /\ ~Last(trace).ok) =>
         /\ FrameReturnedErr
         /\ renderErr.pin = Last(trace).pin
         /\ Last(rowsStarted) = Last(trace).row
         /\ Last(trace).row \notin Range(rowsDone)
         /\ Cardinality({i \in 1..Len(rowsStarted) :
                            rowsStarted[i] = Last(trace).row}) = 1
    /\ FrameReturnedErr => (trace # <<>> /\ ~Last(trace).ok)

\* A write of the second row has failed after the first row was driven.
C6_Witness ==
    /\ FrameReturnedErr
    /\ rowsDone = <<0>>
    /\ rowsStarted = <<0, 1>>
    /\ ~Last(trace).ok

\* C7: the error RenderFrame returns names the index of the failing row, on
\* the software path and on the hardware path.
C7_ErrorNamesRow ==
    FrameReturnedErr => renderErr.row = Last(rowsStarted)

\* C8: a Put against a FIFO that stays full returns; it returns the timeout
\* error, only once the deadline has passed, without a write to TXF, and with
\* the lock released (the register window staying mapped).
C8_PutTimesOut ==
    /\ [](( /\ fifoStuck
            /\ mapped
            /\ putPc = "returned" ) =>
              /\ putResult = "timeout waiting for FIFO space"
              /\ now > deadline
              /\ txfWrites = <<>>
              /\ ~smLocked)
    /\ [](putResult = "timeout waiting for FIFO space" =>
              /\ now > deadline
              /\ txfWrites = <<>>)
    /\ (fifoStuck /\ putPc = "poll") ~> (putPc = "returned")

\* A Put against a stuck FIFO has timed out.
C8_Witness ==
    /\ fifoStuck
    /\ mapped
    /\ putPc = "returned"
    /\ putResult = "timeout waiting for FIFO space"

\* C9: Close stops the state machine before it releases anything, and
\* attempts every release it owns even when an earlier stop or release fails.
C9_EveryReleaseAttempted ==
    closePc = "returned" =>
        /\ Range(attempted) = owned
        /\ "pio.Stop" \in owned => attempted[1] = "pio.Stop"

\* C10: the shutdown signal is acted on only between frames: the loop stops
\* from its select, with the last frame driven through its last row or ended
\* by an error, and once it has stopped no row is driven.
C10_StopAtFrameBoundary ==
    [][ /\ (loopPc # "stopped" /\ loopPc' = "stopped") =>
             /\ loopPc = "select"
             /\ pc = "idle"
             /\ \/ patternCounter = 0
                \/ renderErr # NoErr
                \/ Len(rowsDone) = Len(frameData)
        /\ loopPc = "stopped" =>
             /\ loopPc' = "stopped"
             /\ trace' = trace
             /\ level' = level
             /\ rowsStarted' = rowsStarted ]_vars

\* The loop has stopped after a frame that was driven through its last row.
C10_Witness ==
    /\ loopPc = "stopped"
    /\ patternCounter > 0
    /\ Len(rowsDone) = NumRows

----------------------------------------------------------------------------
\* Properties of acquisition and release.

Constructors == {"NewPin", "NewHUB75Controller", "NewStateMachine"}

Closers == {"Pin.Close", "HUB75Controller.Close", "HUB75Program.Close"}

\* C11: when a constructor returns an error, every pin it had exported or
\* requested has been released exactly once, and when an owner is closed
\* every pin it owned has been released exactly once.
C11_AcquiredPinsReleasedOnce ==
    ( /\ acqPc = "returned"
      /\ \/ acqOp \in Constructors /\ acqResult = "error"
         \/ acqOp \in Closers ) =>
        \A p \in acquired : Count(released, p) = 1

\* C12: releasing a handle returns no error, also when the underlying close
\* or unexport fails, and no handle releases its pin a second time.
C12_ReleaseIdempotent ==
    /\ (acqPc = "returned" /\ acqOp \in Closers) => acqResult = "nil"
    /\ \A h \in 1..Len(pinHandles) : pinHandles[h].unexports <= 1
    /\ \A p \in AllPins : lineCloses[p] <= 1

----------------------------------------------------------------------------
\* Properties of register access.

\* C13: once the window has been unmapped no read or write dereferences the
\* region: every access made found the region mapped, and an access called
\* for after the unmapping returns an error.
C13_NoAccessAfterUnmap ==
    /\ \A i \in 1..Len(accessLog) : accessLog[i].live
    /\ (regPc = "returned" /\ regResult = "nil") => Last(accessLog).live

\* C14: a 32-bit access succeeds only when its four bytes lie inside the
\* window (offset + 4 <= size); every other address, also one below the
\* base, is refused and touches no memory.
C14_WholeAccessInsideWindow ==
    /\ \A i \in 1..Len(accessLog) :
         /\ accessLog[i].offset >= 0
         /\ accessLog[i].offset + 4 <= PIOMemSize
    /\ (regPc = "returned" /\ regResult = "nil") =>
         (regAddr >= PIOBaseAddr /\ regAddr - PIOBaseAddr + 4 <= PIOMemSize)

----------------------------------------------------------------------------
\* Properties of the state-machine slots.

\* The calls that load a program or write pin and clock configuration.
Loaders == {"NewStateMachine", "LoadProgram"}

\* C15: every register write a call makes for slot s goes to
\* s * 0x40 + a sub-offset of the register map, so no call writes a
\* register of another slot.
C15_WritesStayInSlot ==
    \A i \in 1..Len(regWrites) :
        regWrites[i].kind = "reg" => regWrites[i].offset \in SlotRegs(slotNo)

\* C16: a load made on a slot that was started and not stopped fails and
\* writes neither a register nor instruction memory.
C16_RunningSlotRejectsLoad ==
    (slotOp \in Loaders /\ slotWas = "Running") =>
        (slotResult = "error" /\ regWrites = <<>>)

\* C17: Stop on a slot that is already stopped returns nil and leaves every
\* register, the instruction memory, the lifecycle state and the requested
\* lines as they were, with execution control still 0.
C17_StopIdempotent ==
    [][ ( /\ slotCount' # slotCount
          /\ slotOp' = "Stop"
          /\ slotState[slotNo'] = "Stopped" ) =>
            ( /\ slotResult' = "nil"
              /\ regs' = regs
              /\ regs'[slotNo' * 64 + 204] = 0
              /\ slotState' = slotState
              /\ slotHeld' = slotHeld ) ]_vars

\* A second Stop on a stopped slot has returned.
C17_Witness == slotOp = "Stop" /\ slotWas = "Stopped" /\ slotResult = "nil"

\* A write that drives the output-enable line to its disabled level.
IsOutputDisable(w) == w.kind = "pin" /\ w.offset = OEPin /\ w.lo = 1

\* C18: whenever Stop is called, the output-enable line is driven to its
\* disabled level before Stop writes the execution-control register.
C18_StopDisablesOutputFirst ==
    slotOp = "Stop" =>
        \A j \in 1..Len(regWrites) :
            regWrites[j].kind = "reg" =>
                \E i \in 1..(j - 1) : IsOutputDisable(regWrites[i])

----------------------------------------------------------------------------
\* Properties of the row index and of exclusive ownership.

\* C19: a row update whose row index is 2^5 or more (five address lines)
\* writes no pin and puts no pixel, and returns an error.
C19_RowBeyondAddressRejected ==
    rowIdx >= 32 =>
        /\ \A i \in 1..Len(trace) : trace[i].kind \notin {"pin", "put"}
        /\ (loopPc # "frame" => renderErr # NoErr)

\* C20: no pin has two handles that were both returned and not closed, and
\* the register region is never mapped twice at the same time.
C20_NoSecondHandleOrMapping ==
    /\ mappings <= 1
    /\ \A h1, h2 \in 1..Len(pinHandles) :
           ( /\ h1 # h2
             /\ pinHandles[h1].unexports = 0
             /\ pinHandles[h2].unexports = 0 ) =>
               pinHandles[h1].number # pinHandles[h2].number

----------------------------------------------------------------------------
\* Properties of gpio.Pin.

\* The write that Pulse of goroutine g makes with value v, when it succeeds.
PulseEdge(g, v) == [g |-> g, op |-> "Pulse", kind |-> "write", val |-> v, ok |-> TRUE]

\* C21: between the rising and the falling write of a Pulse no other
\* access of the pin is made (the rising write is still the last access and
\* the pin is 1), and when Pulse returns nil its two writes are the last two
\* accesses and the pin is 0.
C21_PulseNotInterleaved ==
    \A g \in PinUsers :
        /\ (pinOp[g] = "Pulse" /\ pinPc[g] \in {"hold", "fall"}) =>
               /\ pinLog # <<>>
               /\ pinLog[Len(pinLog)] = PulseEdge(g, 1)
               /\ pinValue = 1
        /\ (pinOp[g] = "Pulse" /\ pinPc[g] = "unlock" /\ pinResult[g] = "nil") =>
               /\ Len(pinLog) >= 2
               /\ pinLog[Len(pinLog) - 1] = PulseEdge(g, 1)
               /\ pinLog[Len(pinLog)] = PulseEdge(g, 0)
               /\ pinValue = 0

\* A Pulse has returned nil while another goroutine waited for the pin's lock.
C21_Witness ==
    \E g, h \in PinUsers :
        /\ g # h
        /\ pinOp[g] = "Pulse" /\ pinPc[g] = "unlock" /\ pinResult[g] = "nil"
        /\ pinPc[h] = "lock"

----------------------------------------------------------------------------
\* Properties of the frame data.

\* C22: from the first step of a RenderFrame pass to its return no step
\* changes frameData: the producer writes it only at the ticker case, before
\* the pass, and no step of the scan-out writes it.
C22_FrameDataStableDuringPass ==
    [][loopPc = "frame" => frameData' = frameData]_vars

\* The second pass is past its first row and scans what the producer wrote
\* after the first pass.
C22_Witness ==
    /\ loopPc = "frame"
    /\ patternCounter = 2
    /\ rowIdx > 0
    /\ frameData = updateFrameData(1)
    /\ frameData # updateFrameData(0)

\* The FIFO puts of the row update, in order: the n-th is pixel n - 1.
Puts == SelectSeq(trace, LAMBDA e : e.kind = "put")

----------------------------------------------------------------------------
\* Properties of rpi5matrix.Matrix.

\* The coordinates inside the configured matrix.
InBounds(x, y) == x >= 0 /\ x < matCfg.Width /\ y >= 0 /\ y < matCfg.Height

MatCells == {xy \in (0..(matCfg.Width - 1)) \X (0..(matCfg.Height - 1)) : matMade}

\* Goroutine g takes the step that ends its call op.
Returns(g, op) == matCall[g].op = op /\ matPc[g] # "returned" /\ matPc'[g] = "returned"

C26_NewMatrixValidates ==
    newResult # "none" =>
        /\ ( \/ matCfg.Width <= 0
             \/ matCfg.Height <= 0
             \/ matCfg.Brightness < 0
             \/ matCfg.Brightness > 255 ) =>
               /\ newResult \notin {"nil", "failed to create RGB matrix"}
               /\ ~matMade
               /\ matHeld = [pins |-> {}, maps |-> 0]
        /\ ( /\ matCfg.Width > 0
             /\ matCfg.Height > 0
             /\ matCfg.Brightness \in 0..255 ) =>
               newResult \in {"nil", "failed to create RGB matrix"}
        /\ newResult = "nil" =>
               /\ matMade
               /\ matrix.width = matCfg.Width
               /\ matrix.height = matCfg.Height
               /\ matCalls = 0 => matrix.brightness = matCfg.Brightness

\* NewMatrix has returned a matrix.
C26_Witness == newResult = "nil" /\ matMade /\ matCalls = 0

\* C27: the brightness of the matrix and of its driver are equal and within
\* 0..255; SetBrightness sets both when it returns nil and neither when the
\* value is outside 0..255, which returns an error; no other call changes
\* them; and GetBrightness returns the value.
C27_BrightnessInStep ==
    [][ matMade =>
          /\ matrix.brightness = strip.brightness
          /\ matrix.brightness \in 0..255
          /\ \A g \in MatUsers :
                /\ Returns(g, "SetBrightness") =>
                      IF matCall[g].b \in 0..255
                      THEN /\ matResult'[g] = "nil"
                           /\ matrix'.brightness = matCall[g].b
                           /\ strip'.brightness = matCall[g].b
                      ELSE /\ matResult'[g] = "error"
                           /\ matrix'.brightness = matrix.brightness
                           /\ strip'.brightness = strip.brightness
                /\ Returns(g, "GetBrightness") => matRead'[g] = <<matrix.brightness>>
          /\ (\A g \in MatUsers : ~Returns(g, "SetBrightness")) =>
                /\ matrix'.brightness = matrix.brightness
                /\ strip'.brightness = strip.brightness ]_vars

\* GetBrightness has returned the value of an earlier SetBrightness.
C27_Witness ==
    \E g \in MatUsers :
        /\ matCall[g].op = "GetBrightness"
        /\ matPc[g] = "returned"
        /\ matRead[g] = <<64>>

\* C28: when SetPixelHSV(x, y, 0, 1, 1) returns nil the cell of (x, y) holds
\* pure red, so that GetPixelColor(x, y) returns (255, 0, 0).
C28_HsvRedIsRed ==
    [][ \A g \in MatUsers :
            (Returns(g, "SetPixelHSV") /\ matResult'[g] = "nil") =>
                High8(RGBA16(buffer'[SerpentineIndex(matCall[g].x, matCall[g].y) + 1]))
                    = <<255, 0, 0>> ]_vars

C30_CloseAlwaysReturns ==
    \A s \in Slots : ~(smClosePc[s] = "parked" /\ smMu[s] = 1)

\* C31: in the start-up sequence of cmd/pio (NewStateMachine with the pins
\* of GetPins, then LoadProgram on the state machine it returned) the
\* LoadProgram call requests no line that is already held, so it returns nil.
C31_StartupRequestsEachLineOnce ==
    [][ ( /\ slotOp = "NewStateMachine"
          /\ slotResult = "nil"
          /\ slotCount = 1
          /\ slotHeld = AllPins
          /\ slotOp' = "LoadProgram"
          /\ slotNo' = slotNo ) =>
            slotResult' = "nil" ]_vars

\* C32: WriteLEDData returns nil only if writeReg accepted every register
\* write it issued.
C32_NilOnlyIfEveryWriteAccepted ==
    (ledPc = "done" /\ ledResult = "nil") =>
        \A i \in 1..Len(ledWrites) : ledWrites[i][3]

\* C33: on a mapped controller IsFIFOFull and IsFIFOEmpty return, without
\* error, the full flag (bit 0) and the empty flag (bit 1) the FIFO-status
\* register holds at the time of the call.
C33_FifoFlagsReturned ==
    [][ ( /\ mapped
          /\ fifoPc = "called"
          /\ fifoPc' = "returned"
          /\ fifoOp \in {"IsFIFOFull", "IsFIFOEmpty"} ) =>
            /\ fifoErr' = "nil"
            /\ fifoOp = "IsFIFOFull" => fifoFlag' = (fifoStatus \in {1, 3})
            /\ fifoOp = "IsFIFOEmpty" => fifoFlag' = (fifoStatus \in {2, 3}) ]_vars

\* The words put for row r, in the order they were put.
PutsOfRow(r) == SelectSeq(trace, LAMBDA e : e.kind = "put" /\ e.row = r)

\* C34: in the hardware path a row that UpdateRow completed was sent as one
\* FIFO word per pixel, in column order: `width` puts, the word of column c
\* below 64 and its bit k set exactly when channel byte k of pixel c is not 0.
C34_OneWordPerPixel ==
    path = "pio" =>
        \A n \in 1..Len(rowsDone) :
            LET r == rowsDone[n]
                rowData == frameData[r + 1]
                puts == PutsOfRow(r)
            IN  /\ Len(puts) * 6 = Len(rowData)
                /\ \A c \in 1..Len(puts) :
                      /\ puts[c].val \in 0..63
                      /\ \A ch \in 0..5 :
                            (Bit(puts[c].val, ch) = 1) <=> (rowData[(c - 1) * 6 + ch + 1] # 0)

\* A row of the checkerboard has been sent: a yellow-over-magenta pixel
\* followed by a black one.
C34_Witness ==
    /\ path = "pio"
    /\ rowsDone # <<>>
    /\ \E r \in {rowsDone[n] : n \in 1..Len(rowsDone)} :
          /\ Len(PutsOfRow(r)) >= 2
          /\ PutsOfRow(r)[1].val = 43
          /\ PutsOfRow(r)[2].val = 0

\* C35: whenever UpdateRow has returned the error of a pin write or of a
\* FIFO put, that is with the row partly written, the output-enable line is
\* at its disabled level (1).
C35_ErrorLeavesOutputDisabled ==
    (renderErr # NoErr /\ renderErr.kind # "request") => level[OEPin] = 1

C37_DriverHasConfiguredShape ==
    matMade =>
        /\ strip.width = matCfg.Width
        /\ strip.height = matCfg.Height
        /\ strip.pin = matCfg.GPIOPin
        /\ Len(buffer) = matCfg.Width * matCfg.Height

\* What Matrix.GetPixelColor(x, y) reads from the buffer buf.
PixelIn(buf, x, y) ==
    buf[y * matrix.width + (IF y % 2 = 0 THEN x ELSE matrix.width - 1 - x) + 1]

\* The Scroll call of the goroutine returns res in this step.
ScrollReturns(res) == Returns(1, "Scroll") /\ matResult'[1] = res

\* C38: after Scroll(dx, dy) has returned nil, every coordinate (x, y) of
\* the matrix reads the colour that ((x + dx) mod width, (y + dy) mod height)
\* read before the call.
C38_ScrollFollowsSerpentine ==
    [][ ScrollReturns("nil") =>
          \A x \in 0..(matrix.width - 1), y \in 0..(matrix.height - 1) :
              PixelIn(buffer', x, y)
                  = PixelIn(buffer, (x + matCall[1].x) % matrix.width,
                                    (y + matCall[1].y) % matrix.height) ]_vars

\* C39: Scroll never panics on an index outside the buffer, and when it
\* returns nil the new buffer is a permutation of the previous one: it
\* holds every colour as many times.
C39_ScrollStaysInBuffer ==
    [][ /\ ~ScrollReturns("panic")
        /\ ScrollReturns("nil") =>
              /\ Len(buffer') = Len(buffer)
              /\ \A c \in Range(buffer) \cup Range(buffer') :
                    Cardinality({i \in 1..Len(buffer) : buffer'[i] = c})
                        = Cardinality({i \in 1..Len(buffer) : buffer[i] = c}) ]_vars

InitNet == ScanIdle /\ PutIdle /\ CloseIdle /\ LedIdle /\ AcqIdle /\ RegIdle /\ SlotIdle /\ PinIdle /\ MatIdle /\ SmCloseIdle /\ FifoIdle /\ ShutIdle /\ NetInit

\* One network scan
SpecNet == InitNet /\ [][NetNext]_vars

\* One network scan in which every goroutine is scheduled and the timer of
\* time.After fires.
SpecNetFair ==
    /\ InitNet
    /\ [][NetNext]_vars
    /\ WF_vars(ScanStart)
    /\ WF_vars(ScanCollect)
    /\ WF_vars(HostNext)
    /\ WF_vars(TimeoutFires)

\* scanNetworkRange has returned and no scanIP goroutine is left running.
ScanOver ==
    /\ netPc = "returned"
    /\ \A h \in Hosts : hostPc[h] \in {"unstarted", "done"}

\* C40: scanNetworkRange always returns, and every scanIP goroutine that was
\* started completes its one send and ends, also after the collector has
\* returned.
C40_ScanAlwaysReturns == <>[]ScanOver

\* The collector returned on its timeout before any result was sent, and all
\* goroutines have since sent their result into the buffer and ended.
C40_Witness ==
    /\ ScanOver
    /\ netGot = 0
    /\ Len(resultChan) = MaxHosts

====
